---- MODULE Spec2Model ----
(***************************************************************************)
(* KnowStack: the durable job queue (job table, run_job, the worker's      *)
(* polling loop) and the document processing pipeline it drives            *)
(* (process_document_sync: extract, chunk, delete-then-insert, vector      *)
(* upsert, document status).                                               *)
(*                                                                         *)
(* Persistence is PostgreSQL through one SQLAlchemy session per request.   *)
(* The statements of a request are modelled one step at a time.  Two       *)
(* properties of the database decide what other requests can observe:      *)
(*   - ensure_runtime_schema issues ALTER TABLE on document and job, which *)
(*     takes an ACCESS EXCLUSIVE lock on both tables that is held until    *)
(*     the session commits or rolls back (variable lock);                  *)
(*   - writes of a transaction are visible to others only after commit,    *)
(*     and a transaction in which a statement failed on the server rejects *)
(*     every later statement until it is rolled back (variable tx).        *)
(***************************************************************************)
EXTENDS Integers, Sequences, FiniteSets, TLC

\* ---------------------------------------------------------------- bounds
MaxJobs == 1          \* job rows that may be enqueued
MaxDocs == 1          \* document rows that may be created
MaxReqs == 2          \* API requests in flight at once
MaxNow == 10          \* the clock stops advancing here
TickSeconds == 10     \* seconds the clock advances per step
MaxAttemptsSeen == 4  \* a job is not triggered again beyond this attempts value
SentenceLen == 400    \* letters in each sentence of the two-chunk texts
MaxRegs == 2          \* registration requests in flight at once
MaxAsks == 2          \* chat requests in flight at once
MaxOwnerDocs == 3     \* document rows the two owners may register together
MaxClock == 61        \* the clock of the rate limiter stops advancing here
MaxChatAsks == 2      \* admitted chat requests after which no further one arrives
MaxScoreDocs == 8     \* documents of the library the ranking is checked on
MaxTextLen == 6       \* characters of the texts the chunker is called on
MaxEnqueued == 2      \* job rows enqueued where enqueueing is checked
MaxStaleIndex == 1    \* highest chunk index the vector store may still hold a point for
MaxQueueJobs == 6     \* job rows of the queue the worker's fetch is checked on
MaxRateAsks == 2      \* admissions an identity is short of its limit, and may add
MaxAuthAsks == 2      \* chat requests admitted behind the identity check

\* ------------------------------------------------------ program constants
job_max_attempts == 3
job_retry_base_seconds == 10
embedding_dim == 128
Blake2bMaxDigest == 64
default_chunk_size == 800
default_overlap == 120
fetch_limit == 5
rate_limit_per_minute == 60
window_seconds == 60
retrieval_limit == 200
rerank_top_k == 5

NULL == -1

JobIds == 1..MaxJobs
DocIds == 1..MaxDocs
Reqs == 1..MaxReqs
Regs == 1..MaxRegs
Asks == 1..MaxAsks

\* --------------------------------------------------------------- texts
\* A text is a sequence of characters.  The alphabet has no newline, tab,
\* hyphen, non-breaking or zero-width space, so of normalize_text's rewrites
\* only the collapse of runs of blanks and the final strip() can apply.
NUL == "NUL"

RECURSIVE lstrip(_)
lstrip(s) ==
    IF s # <<>> /\ Head(s) = " " THEN lstrip(Tail(s)) ELSE s

RECURSIVE rstrip(_)
rstrip(s) ==
    IF s # <<>> /\ s[Len(s)] = " " THEN rstrip(SubSeq(s, 1, Len(s) - 1)) ELSE s

strip(s) == rstrip(lstrip(s))

\* re.sub(r"[ \t]+", " ", cleaned): of every two adjacent blanks the first is
\* dropped.  The text is halved so that long texts are read in few nested
\* steps; the left half always keeps its last character.
RECURSIVE collapse_blanks(_)
collapse_blanks(s) ==
    IF Len(s) <= 1 THEN s
    ELSE LET m == Len(s) \div 2
             left == collapse_blanks(SubSeq(s, 1, m))
             right == collapse_blanks(SubSeq(s, m + 1, Len(s)))
         IN IF s[m] = " " /\ s[m + 1] = " "
            THEN SubSeq(left, 1, Len(left) - 1) \o right
            ELSE left \o right

normalize_text(text) == strip(collapse_blanks(text))

\* re.split(r"(?<=[.!?])\s+", text): cut at every run of blanks that follows
\* a sentence terminator; cur is the part of the sentence already read, and
\* cuts are the blanks of s that follow a terminator.
RECURSIVE split_sentences(_, _)
split_sentences(s, cur) ==
    LET t == cur \o s
        cuts == {i \in (Len(cur) + 1)..Len(t) :
                    t[i] = " " /\ i > 1 /\ t[i - 1] \in {".", "!", "?"}}
    IN IF cuts = {} THEN <<t>>
       ELSE LET i == CHOOSE c \in cuts : \A k \in cuts : c <= k
            IN <<SubSeq(t, 1, i - 1)>>
                   \o split_sentences(lstrip(SubSeq(t, i, Len(t))), <<>>)

\* The accumulation loop without the emission of the final buffer.
RECURSIVE chunk_loop_no_flush(_, _, _, _, _)
chunk_loop_no_flush(sentences, current, chunks, chunk_size, overlap) ==
    IF sentences = <<>> THEN chunks
    ELSE LET sentence == Head(sentences) IN
         IF Len(current) + Len(sentence) + 1 <= chunk_size
         THEN chunk_loop_no_flush(Tail(sentences), strip(current \o <<" ">> \o sentence),
                                  chunks, chunk_size, overlap)
         ELSE LET seed == IF current # <<>> /\ overlap > 0 /\ Len(current) > overlap
                          THEN SubSeq(current, Len(current) - overlap + 1, Len(current))
                          ELSE <<>>
                  emitted == IF current # <<>> THEN Append(chunks, current) ELSE chunks
              IN chunk_loop_no_flush(Tail(sentences), strip(seed \o <<" ">> \o sentence),
                                     emitted, chunk_size, overlap)

\* The accumulation loop when the buffer is dropped, not emitted, where the
\* next sentence does not fit.
RECURSIVE chunk_loop_drop(_, _, _, _, _)
chunk_loop_drop(sentences, current, chunks, chunk_size, overlap) ==
    IF sentences = <<>>
    THEN IF current # <<>> THEN Append(chunks, current) ELSE chunks
    ELSE LET sentence == Head(sentences) IN
         IF Len(current) + Len(sentence) + 1 <= chunk_size
         THEN chunk_loop_drop(Tail(sentences), strip(current \o <<" ">> \o sentence),
                              chunks, chunk_size, overlap)
         ELSE chunk_loop_drop(Tail(sentences), sentence, chunks, chunk_size, overlap)

\* The accumulation loop of split_into_chunks.
RECURSIVE chunk_loop(_, _, _, _, _)
chunk_loop(sentences, current, chunks, chunk_size, overlap) ==
    IF sentences = <<>>
    THEN IF current # <<>> THEN Append(chunks, current) ELSE chunks
    ELSE LET sentence == Head(sentences) IN
         IF Len(current) + Len(sentence) + 1 <= chunk_size
         THEN chunk_loop(Tail(sentences), strip(current \o <<" ">> \o sentence),
                         chunks, chunk_size, overlap)
         ELSE LET seed == IF current # <<>> /\ overlap > 0 /\ Len(current) > overlap
                          THEN SubSeq(current, Len(current) - overlap + 1, Len(current))
                          ELSE <<>>
                  emitted == IF current # <<>> THEN Append(chunks, current) ELSE chunks
              IN chunk_loop(Tail(sentences), strip(seed \o <<" ">> \o sentence),
                            emitted, chunk_size, overlap)

split_into_chunks(text, chunk_size, overlap) ==
    LET t == normalize_text(text) IN
    IF strip(t) = <<>> THEN <<>>
    ELSE SelectSeq(chunk_loop(split_sentences(strip(t), <<>>), <<>>, <<>>,
                              chunk_size, overlap),
                   LAMBDA c : strip(c) # <<>>)

\* The uploaded files of the model: one sentence, two sentences with a run
\* of blanks, blanks only, and a text holding a NUL character.
Texts ==
    { <<"a", ".">>,
      <<"a", ".", " ", " ", "b", ".">>,
      <<" ">>,
      <<"a", NUL>> }

\* Texts longer than the chunk size: two sentences of SentenceLen letters,
\* which the chunker cuts into two chunks; in the second text the second
\* sentence holds a NUL character.
Filled(c, n) == [i \in 1..n |-> c]

LongText == Filled("a", SentenceLen) \o <<".", " ">> \o Filled("b", SentenceLen) \o <<".">>

LongTextNul ==
    Filled("a", SentenceLen) \o <<".", " ">> \o Filled("b", SentenceLen) \o <<NUL, ".">>

LongTexts == {LongText, LongTextNul}


\* ---------------------------------------------------------------- state
Users == {"u1"}
Roles == {"user", "admin"}

VARIABLES
    now,        \* the clock read by datetime.now(timezone.utc) and now()
    document,   \* committed document rows, by id
    chunk,      \* committed chunk rows, in insertion order
    job,        \* committed job rows, by id
    lock,       \* request holding ACCESS EXCLUSIVE on document and job, or 0
    tx,         \* open transaction of the lock holder: its chunk rows, aborted flag
    rq,         \* API requests in flight: position and locals of each
    poll,       \* the worker loop: position, fetched ids, request it waits for
    reg,        \* registration requests in flight, statement by statement
    ask,        \* POST /chat/ask requests in flight: position and locals
    bucket,     \* rate_limit._BUCKETS: per identity the admitted timestamps kept
    admitted,   \* history: per identity every timestamp ever admitted
    call        \* a call of a function of ingestion.py: arguments and outcome

\* The state of the chat front end and of a function called on its own,
\* which the job engine never touches.
front == <<reg, ask, bucket, admitted, call>>

vars == <<now, document, chunk, job, lock, tx, rq, poll, reg, ask, bucket, admitted, call>>

\* No function is being called on its own.
NoCall == [fn |-> "none"]

NoTx == [chunk |-> <<>>, aborted |-> FALSE]

IdleReq ==
    [pc |-> "idle", kind |-> "none", user_id |-> "none", job_id |-> 0,
     job_type |-> "none",
     document_id |-> 0, attempts |-> 0, max_attempts |-> 0, chunks |-> <<>>,
     exc |-> "none", ret |-> "none", prev_status |-> "none"]

\* The callers of the registration and chat routes.
Owners == {"u1", "u2"}

\* A registration request: the route, the caller, the content hash, the row
\* its lookup found and the response fields.
IdleReg ==
    [pc |-> "idle", route |-> "none", user_id |-> "none", sha256 |-> <<>>,
     id |-> 0, is_duplicate |-> FALSE, ret |-> "none"]

\* A chat request: the caller, the question and document filter, the local
\* now of enforce_rate_limit while it runs, the outcome.
IdleAsk ==
    [pc |-> "idle", user_id |-> "none", question |-> <<>>, document_id |-> 0,
     t |-> 0, rows |-> <<>>, ret |-> "none"]

\* The request holding the table locks is named by a number: API requests
\* of the engine first, then registrations, then chat requests.
RegLock(g) == MaxReqs + g
AskLock(a) == MaxReqs + MaxRegs + a

Init ==
    /\ now = 0
    /\ document = <<>>
    /\ chunk = <<>>
    /\ job = <<>>
    /\ lock = 0
    /\ tx = NoTx
    /\ rq = [r \in Reqs |-> IdleReq]
    /\ poll = [pc |-> "sleep", ids |-> <<>>, wait |-> 0]
    /\ reg = [g \in Regs |-> IdleReg]
    /\ ask = [a \in Asks |-> IdleAsk]
    /\ bucket = [u \in Owners |-> <<>>]
    /\ admitted = [u \in Owners |-> <<>>]
    /\ call = NoCall

\* The server handles a new request in any free slot; which one is immaterial,
\* so the lowest is taken.
FreeSlot(r) == rq[r].pc = "idle" /\ \A k \in Reqs : rq[k].pc = "idle" => r <= k

\* uuid4(): a fresh identifier.
FreshId(used, all) == CHOOSE i \in all \ used : \A k \in all \ used : i <= k

Tick ==
    /\ now + TickSeconds <= MaxNow
    /\ now' = now + TickSeconds
    /\ UNCHANGED <<document, chunk, job, lock, tx, rq, poll, front>>

\* ------------------------------------------------------------ documents
\* The lookup both registration routes make: a document of this owner with
\* this content hash.
ExistingDocument(u, sha) ==
    \E d \in DOMAIN document : document[d].user_id = u /\ document[d].sha256 = sha

\* POST /documents/upload: the file is written under storage_key; text is
\* the content of that file.  sha256 is modelled as the content itself.
UploadDocument(u, text) ==
    /\ lock = 0
    /\ DOMAIN document # DocIds
    /\ ~ExistingDocument(u, text)
    /\ LET d == FreshId(DOMAIN document, DocIds) IN
       document' = document @@
           (d :> [user_id |-> u, status |-> "queued", storage_key |-> TRUE,
                  sha256 |-> text, text |-> text])
    /\ UNCHANGED <<now, chunk, job, lock, tx, rq, poll, front>>

\* POST /documents: metadata only, no storage_key.
CreateDocument(u, sha) ==
    /\ lock = 0
    /\ DOMAIN document # DocIds
    /\ ~ExistingDocument(u, sha)
    /\ LET d == FreshId(DOMAIN document, DocIds) IN
       document' = document @@
           (d :> [user_id |-> u, status |-> "queued", storage_key |-> FALSE,
                  sha256 |-> sha, text |-> <<>>])
    /\ UNCHANGED <<now, chunk, job, lock, tx, rq, poll, front>>

\* ----------------------------------------------------------------- jobs
\* The row of a job that becomes eligible one tick after its creation.
NewJobLater(u, d, t) ==
    [user_id |-> u, job_type |-> "document_process",
     document_id |-> d, status |-> "queued", attempts |-> 0,
     max_attempts |-> job_max_attempts, next_run_at |-> t + TickSeconds, created_at |-> t,
     started_at |-> NULL, finished_at |-> NULL, error |-> "none"]

NewJob(u, d, t) ==
    [user_id |-> u, job_type |-> "document_process",
     document_id |-> d, status |-> "queued", attempts |-> 0,
     max_attempts |-> job_max_attempts, next_run_at |-> t, created_at |-> t,
     started_at |-> NULL, finished_at |-> NULL, error |-> "none"]

\* POST /documents/{id}/process-async -> enqueue_document_job, with ids the
\* identifiers a job may get.
EnqueueJob(u, d, ids) ==
    /\ lock = 0
    /\ DOMAIN job # ids
    /\ d \in DOMAIN document
    /\ document[d].user_id = u
    /\ LET j == FreshId(DOMAIN job, ids) IN
       job' = job @@ (j :> NewJob(u, d, now))
    /\ UNCHANGED <<now, document, chunk, lock, tx, rq, poll, front>>

EnqueueDocumentJob(u, d) == EnqueueJob(u, d, JobIds)


\* The four updates run_job makes to a job row.
ClaimUpdate(row, started_at) ==
    [row EXCEPT !.status = "processing", !.started_at = started_at,
                !.attempts = @ + 1]

\* The retry update without "finished_at = null".
RetryUpdateKeepsFinishedAt(row, error, next_run_at) ==
    [row EXCEPT !.status = "queued", !.error = error,
                !.next_run_at = next_run_at]

RetryUpdate(row, error, next_run_at) ==
    [row EXCEPT !.status = "queued", !.error = error,
                !.next_run_at = next_run_at, !.finished_at = NULL]

FailedUpdate(row, error, finished_at) ==
    [row EXCEPT !.status = "failed", !.error = error, !.finished_at = finished_at]

CompletedUpdate(row, finished_at) ==
    [row EXCEPT !.status = "completed", !.finished_at = finished_at]

\* The delay with the exponent taken from attempts instead of attempts - 1.
retry_seconds_late(attempts) == job_retry_base_seconds * (2 ^ attempts)

\* settings.job_retry_base_seconds * (2 ** (attempts - 1))
retry_seconds(attempts) == job_retry_base_seconds * (2 ^ (attempts - 1))

\* run_job's snapshot of the row it loaded: attempts as read, before the
\* claim update increments the stored value.
LoadJob(j) ==
    [IdleReq EXCEPT !.pc = "claim", !.kind = "job", !.job_id = j,
                    !.user_id = job[j].user_id,
                    !.job_type = job[j].job_type,
                    !.document_id = job[j].document_id,
                    !.attempts = job[j].attempts,
                    !.max_attempts = job[j].max_attempts]

\* run_job_now up to run_job's select: ensure_runtime_schema takes the table
\* locks, the route checks the caller, run_job loads the row.
BeginRunJob(r, j) ==
    /\ FreeSlot(r)
    /\ lock = 0
    /\ j \in DOMAIN job
    /\ job[j].attempts < MaxAttemptsSeen
    /\ lock' = r
    /\ tx' = [chunk |-> chunk, aborted |-> FALSE]
    /\ rq' = [rq EXCEPT ![r] = LoadJob(j)]

\* POST /jobs/{id}/run by a client: the owner of the job or an admin.
RunJobNow(r, u, role, j) ==
    /\ j \in DOMAIN job
    /\ (job[j].user_id = u \/ role = "admin")
    /\ BeginRunJob(r, j)
    /\ UNCHANGED <<now, document, chunk, job, poll, front>>

\* run_job: the claim update and its commit, which releases the locks.
Claim(r) ==
    /\ rq[r].pc = "claim"
    /\ lock = r
    /\ LET j == rq[r].job_id IN
       /\ job' = [job EXCEPT ![j] = ClaimUpdate(@, now)]
       /\ rq' = [rq EXCEPT ![r].pc = "process", ![r].prev_status = job[j].status]
    /\ lock' = 0
    /\ tx' = NoTx
    /\ UNCHANGED <<now, document, chunk, poll, front>>


\* ------------------------------------------------------------- pipeline
\* extract_text for a text/plain file: the normalized content, or an error
\* when nothing readable is left.
extract_text(text) == normalize_text(text)

extract_raises(text) == normalize_text(text) = <<>>

Range(f) == {f[i] : i \in DOMAIN f}

\* psycopg refuses a text parameter that holds a NUL character: the insert
\* of that chunk raises in the client, before anything reaches the server.
Unstorable(content) == NUL \in Range(content)

\* The rows the insert loop has written when it stops: all of them, or those
\* before the first chunk the driver refuses.
RECURSIVE InsertedCount(_)
InsertedCount(chunks) ==
    IF chunks = <<>> \/ Unstorable(Head(chunks)) THEN 0
    ELSE 1 + InsertedCount(Tail(chunks))

\* The insert loop writing the chunks in reverse order.
InsertRowsReversed(d, u, chunks, n) ==
    [i \in 1..n |-> [document_id |-> d, user_id |-> u, chunk_index |-> i - 1,
                     content |-> chunks[n + 1 - i]]]

InsertRows(d, u, chunks, n) ==
    [i \in 1..n |-> [document_id |-> d, user_id |-> u, chunk_index |-> i - 1,
                     content |-> chunks[i]]]

\* The pipeline without its delete statement.
DeleteChunksOfNone(rows, d) == rows

\* delete from chunk where document_id = :document_id
DeleteChunks(rows, d) == SelectSeq(rows, LAMBDA row : row.document_id # d)

\* embed_text: hashlib.blake2b(digest_size = embedding_dim) raises ValueError
\* for a digest size above 64 bytes.
embed_raises == embedding_dim > Blake2bMaxDigest

\* upsert_chunk_vectors: TRUE/FALSE for its return value, "raise" when
\* embed_text raises, which happens outside its try block.
upsert_chunk_vectors(rows, qdrant_up) ==
    IF rows = <<>> THEN "true"
    ELSE IF ~qdrant_up THEN "false"
    ELSE IF embed_raises THEN "raise"
    ELSE "true"

Raise(r, exc) == [rq EXCEPT ![r].pc = "except", ![r].exc = exc]

\* POST /documents/{id}/process: the route's ensure_runtime_schema takes the
\* locks, then process_document_sync runs in the same transaction.
ProcessDocument(r, u, d) ==
    /\ FreeSlot(r)
    /\ lock = 0
    /\ lock' = r
    /\ tx' = [chunk |-> chunk, aborted |-> FALSE]
    /\ rq' = [rq EXCEPT ![r] = [IdleReq EXCEPT !.pc = "process", !.kind = "sync",
                                               !.user_id = u, !.document_id = d]]
    /\ UNCHANGED <<now, document, chunk, job, poll, front>>

\* run_job, line 137: the job types run_job knows.  The synchronous route
\* calls process_document_sync without a job.
Supported(r) == rq[r].kind = "job" => rq[r].job_type = "document_process"

\* run_job, lines 143-144: any other job type raises.  The update of the
\* except block waits until no request holds the table locks; from that
\* update to its commit no other request gets them.
RunJobUnsupported(r) ==
    /\ rq[r].pc = "process"
    /\ ~Supported(r)
    /\ lock = 0
    /\ lock' = r
    /\ tx' = [chunk |-> chunk, aborted |-> FALSE]
    /\ rq' = Raise(r, "Unsupported job type")
    /\ UNCHANGED <<now, document, chunk, job, poll, front>>

\* process_document_sync, lines 15-36: ensure_runtime_schema, the document
\* lookup, extraction and chunking.
ProcessRead(r) ==
    /\ rq[r].pc = "process"
    /\ Supported(r)
    /\ lock \in {0, r}
    /\ lock' = r
    /\ tx' = IF lock = r THEN tx ELSE [chunk |-> chunk, aborted |-> FALSE]
    /\ LET d == rq[r].document_id
           found == d \in DOMAIN document /\ document[d].user_id = rq[r].user_id
       IN rq' = IF ~found THEN Raise(r, "Document not found for user")
                ELSE IF ~document[d].storage_key
                     THEN Raise(r, "Document has no storage key")
                ELSE IF extract_raises(document[d].text)
                     THEN Raise(r, "TXT file has no readable text")
                ELSE [rq EXCEPT ![r].pc = "write",
                                ![r].chunks = split_into_chunks(
                                    extract_text(document[d].text),
                                    default_chunk_size, default_overlap)]
    /\ UNCHANGED <<now, document, chunk, job, poll, front>>

\* process_document_sync, lines 38-68: delete the document's chunks, insert
\* the new ones.  A statement the server fails leaves the transaction
\* aborted; a chunk the driver refuses raises with the earlier rows written.
ProcessWrite(r) ==
    /\ rq[r].pc = "write"
    /\ lock = r
    /\ LET d == rq[r].document_id
           chunks == rq[r].chunks
           n == InsertedCount(chunks)
           written == DeleteChunks(tx.chunk, d) \o InsertRows(d, rq[r].user_id, chunks, n)
       IN \E server_ok \in BOOLEAN :
            IF ~server_ok
            THEN /\ tx' = [tx EXCEPT !.aborted = TRUE]
                 /\ rq' = Raise(r, "database error")
            ELSE /\ tx' = [tx EXCEPT !.chunk = written]
                 /\ rq' = IF n < Len(chunks)
                          THEN Raise(r, "text fields cannot contain NUL")
                          ELSE [rq EXCEPT ![r].pc = "index"]
    /\ UNCHANGED <<now, document, chunk, job, lock, poll, front>>

\* process_document_sync, lines 70-73: the vector upsert, the document's
\* status and the commit.
ProcessIndex(r) ==
    /\ rq[r].pc = "index"
    /\ lock = r
    /\ LET d == rq[r].document_id
           rows == InsertRows(d, rq[r].user_id, rq[r].chunks, Len(rq[r].chunks))
       IN \E qdrant_up \in BOOLEAN, server_ok \in BOOLEAN :
            IF upsert_chunk_vectors(rows, qdrant_up) = "raise"
            THEN /\ rq' = Raise(r, "digest_size must be between 1 and 64 bytes")
                 /\ UNCHANGED <<document, chunk, lock, tx>>
            ELSE IF ~server_ok
            THEN /\ tx' = [tx EXCEPT !.aborted = TRUE]
                 /\ rq' = Raise(r, "database error")
                 /\ UNCHANGED <<document, chunk, lock>>
            ELSE /\ document' = [document EXCEPT ![d].status = "processed"]
                 /\ chunk' = tx.chunk
                 /\ lock' = 0
                 /\ tx' = NoTx
                 /\ rq' = IF rq[r].kind = "job"
                          THEN [rq EXCEPT ![r].pc = "complete"]
                          ELSE [rq EXCEPT ![r].pc = "done", ![r].ret = "processed"]
    /\ UNCHANGED <<now, job, poll, front>>


\* -------------------------------------------------- outcome of a request
Done(r, ret) == [rq EXCEPT ![r].pc = "done", ![r].ret = ret, ![r].chunks = <<>>]

\* run_job's except block, lines 145-180.  It runs in the transaction the
\* pipeline left open: on an aborted transaction its own update raises, the
\* exception leaves run_job and closing the session rolls back; otherwise
\* its commit also commits what the pipeline had written.
RunJobExcept(r) ==
    /\ rq[r].pc = "except"
    /\ rq[r].kind = "job"
    /\ lock = r
    /\ LET j == rq[r].job_id
           attempts == rq[r].attempts + 1
           max_attempts == rq[r].max_attempts
       IN IF tx.aborted
          THEN /\ rq' = Done(r, "raised")
               /\ UNCHANGED <<job, chunk>>
          ELSE IF attempts < max_attempts
          THEN /\ job' = [job EXCEPT ![j] =
                            RetryUpdate(@, rq[r].exc, now + retry_seconds(attempts))]
               /\ chunk' = tx.chunk
               /\ rq' = Done(r, "queued")
          ELSE /\ job' = [job EXCEPT ![j] = FailedUpdate(@, rq[r].exc, now)]
               /\ chunk' = tx.chunk
               /\ rq' = Done(r, "failed")
    /\ lock' = 0
    /\ tx' = NoTx
    /\ UNCHANGED <<now, document, poll, front>>

\* run_job, lines 182-187: the pipeline returned.
RunJobComplete(r) ==
    /\ rq[r].pc = "complete"
    /\ lock = 0
    /\ job' = [job EXCEPT ![rq[r].job_id] = CompletedUpdate(@, now)]
    /\ rq' = Done(r, "completed")
    /\ UNCHANGED <<now, document, chunk, lock, tx, poll, front>>

\* process_document's except block, v1.py lines 252-255: the document is
\* marked failed by id alone and the transaction is committed.
ProcessDocumentExcept(r) ==
    /\ rq[r].pc = "except"
    /\ rq[r].kind = "sync"
    /\ lock = r
    /\ LET d == rq[r].document_id IN
       IF tx.aborted
       THEN /\ rq' = Done(r, "raised")
            /\ UNCHANGED <<document, chunk>>
       ELSE /\ document' = IF d \in DOMAIN document
                           THEN [document EXCEPT ![d].status = "failed"]
                           ELSE document
            /\ chunk' = tx.chunk
            /\ rq' = Done(r, "http 400")
    /\ lock' = 0
    /\ tx' = NoTx
    /\ UNCHANGED <<now, job, poll, front>>

\* The response reaches a client that called the API directly.
Respond(r) ==
    /\ rq[r].pc = "done"
    /\ poll.wait # r
    /\ rq' = [rq EXCEPT ![r] = IdleReq]
    /\ UNCHANGED <<now, document, chunk, job, lock, tx, poll, front>>

\* --------------------------------------------------------------- worker
\* where status = 'queued' and next_run_at <= now()
Due(t) == {j \in DOMAIN job : job[j].status = "queued" /\ job[j].next_run_at <= t}

\* order by created_at asc
BeforeCreated(a, b) == job[a].created_at <= job[b].created_at

\* order by next_run_at asc, created_at asc
Before(a, b) ==
    \/ job[a].next_run_at < job[b].next_run_at
    \/ job[a].next_run_at = job[b].next_run_at /\ job[a].created_at <= job[b].created_at

Ordered(ids) == \A i, k \in DOMAIN ids : i < k => Before(ids[i], ids[k])

Orderings(S) ==
    {ids \in [1..Cardinality(S) -> S] :
        /\ \A i, k \in DOMAIN ids : i # k => ids[i] # ids[k]
        /\ Ordered(ids)}

Limit(ids, n) == SubSeq(ids, 1, IF Len(ids) < n THEN Len(ids) ELSE n)

\* fetch_queued_job_ids: rows with equal keys come in either order.
PollFetch ==
    /\ poll.pc = "sleep"
    /\ lock = 0
    /\ \E ids \in Orderings(Due(now)) :
         poll' = [pc |-> "run", ids |-> Limit(ids, fetch_limit), wait |-> 0]
    /\ UNCHANGED <<now, document, chunk, job, lock, tx, rq, front>>

\* The worker's run_job: POST /jobs/{id}/run as admin for the next id.
PollRunJob(r) ==
    /\ poll.pc = "run"
    /\ poll.wait = 0
    /\ poll.ids # <<>>
    /\ BeginRunJob(r, Head(poll.ids))
    /\ poll' = [poll EXCEPT !.ids = Tail(@), !.wait = r]
    /\ UNCHANGED <<now, document, chunk, job, front>>

\* The trigger's response reaches the worker.
PollResponse ==
    /\ poll.wait # 0
    /\ rq[poll.wait].pc = "done"
    /\ rq' = [rq EXCEPT ![poll.wait] = IdleReq]
    /\ poll' = [poll EXCEPT !.wait = 0]
    /\ UNCHANGED <<now, document, chunk, job, lock, tx, front>>

\* All fetched ids were triggered: time.sleep(POLL_SECONDS).
PollSleep ==
    /\ poll.pc = "run"
    /\ poll.wait = 0
    /\ poll.ids = <<>>
    /\ poll' = [poll EXCEPT !.pc = "sleep"]
    /\ UNCHANGED <<now, document, chunk, job, lock, tx, rq, front>>

\* ------------------------------------------------------- specification
\* The job engine: registration, enqueueing, the trigger endpoint, the
\* worker loop and the pipeline run_job drives.
Next ==
    \/ Tick
    \/ \E u \in Users, text \in Texts : UploadDocument(u, text)
    \/ \E u \in Users, sha \in Texts : CreateDocument(u, sha)
    \/ \E u \in Users, d \in DocIds : EnqueueDocumentJob(u, d)
    \/ \E r \in Reqs, u \in Users, role \in Roles, j \in JobIds : RunJobNow(r, u, role, j)
    \/ \E r \in Reqs : Claim(r)
    \/ \E r \in Reqs : ProcessRead(r)
    \/ \E r \in Reqs : ProcessWrite(r)
    \/ \E r \in Reqs : ProcessIndex(r)
    \/ \E r \in Reqs : RunJobExcept(r)
    \/ \E r \in Reqs : RunJobComplete(r)
    \/ \E r \in Reqs : Respond(r)
    \/ PollFetch
    \/ \E r \in Reqs : PollRunJob(r)
    \/ PollResponse
    \/ PollSleep

Spec == Init /\ [][Next]_vars

\* The job engine together with the synchronous processing route.
NextAll ==
    \/ Next
    \/ \E r \in Reqs, u \in Users, d \in DocIds : ProcessDocument(r, u, d)
    \/ \E r \in Reqs : ProcessDocumentExcept(r)

SpecAll == Init /\ [][NextAll]_vars


\* --------------------------------------------------------------- claims
Terminal == {"completed", "failed"}

\* Request r is executing run_job between its claim and its retry/terminal
\* update.
Running(r) ==
    /\ rq[r].kind = "job"
    /\ rq[r].pc \in {"process", "write", "index", "except", "complete"}

\* In this step run_job of request r applies its retry-or-fail transition.
FailureStep(r) ==
    /\ rq[r].kind = "job"
    /\ rq[r].pc = "except"
    /\ rq'[r].pc = "done"
    /\ rq'[r].ret \in {"queued", "failed"}

\* In this step run_job of request r returns or raises.
ReturnStep(r) ==
    /\ rq[r].kind = "job"
    /\ rq[r].pc \in {"except", "complete"}
    /\ rq'[r].pc = "done"

\* In this step job j is claimed: its attempts counter is incremented.
ClaimStep(j) == job'[j].attempts = job[j].attempts + 1

\* C1: at any instant at most one request is executing run_job for a given
\* job between its claim and its retry/terminal update.
C1_AtMostOneRunner ==
    \A r1, r2 \in Reqs :
        (r1 # r2 /\ Running(r1) /\ Running(r2)) => rq[r1].job_id # rq[r2].job_id

\* C2: the stored attempts counter of every job is at most its max_attempts.
C2_AttemptsBounded ==
    \A j \in DOMAIN job : job[j].attempts <= job[j].max_attempts

\* C3: once a job is completed or failed, no step changes its status,
\* attempts, started_at or finished_at.
C3_TerminalIsFinal ==
    [][\A j \in DOMAIN job :
          job[j].status \in Terminal =>
              /\ job'[j].status = job[j].status
              /\ job'[j].attempts = job[j].attempts
              /\ job'[j].started_at = job[j].started_at
              /\ job'[j].finished_at = job[j].finished_at]_vars

\* C4: a trigger on a job that was completed or failed when it was claimed
\* does not run the pipeline and returns that terminal status.
C4_TerminalTriggerIsNoOp ==
    \A r \in Reqs :
        (rq[r].kind = "job" /\ rq[r].prev_status \in Terminal) =>
            /\ rq[r].pc \notin {"write", "index", "except", "complete"}
            /\ rq[r].pc = "done" => rq[r].ret = rq[r].prev_status

\* C5: a job becomes failed only with attempts = max_attempts, and a failure
\* while the stored attempts are below max_attempts returns it to queued.
C5_FailedOnlyAtMax ==
    [][/\ \A j \in DOMAIN job :
            (job[j].status # "failed" /\ job'[j].status = "failed")
                => job'[j].attempts = job'[j].max_attempts
       /\ \A r \in Reqs :
            (FailureStep(r) /\ job[rq[r].job_id].attempts < job[rq[r].job_id].max_attempts)
                => job'[rq[r].job_id].status = "queued"]_vars

C7_ClaimOnlyWhenDue ==
    [][\A j \in DOMAIN job :
          ClaimStep(j) =>
              /\ job[j].status = "queued"
              /\ job[j].next_run_at <= now]_vars

\* C8: no job is queued with finished_at set, and the status of every job is
\* one of queued, processing, completed, failed.
C8_QueuedHasNoFinishedAt ==
    \A j \in DOMAIN job :
        /\ job[j].status \in {"queued", "processing", "completed", "failed"}
        /\ job[j].status = "queued" => job[j].finished_at = NULL

\* A job that had finished was run again by two requests at once; one of
\* them has put it back to queued while the other is still running.
C8_Witness ==
    \E j \in DOMAIN job, r1, r2 \in Reqs :
        /\ job[j].status = "queued"
        /\ job[j].error # "none"
        /\ rq[r1].kind = "job" /\ rq[r1].job_id = j /\ rq[r1].pc = "done"
        /\ rq[r1].ret = "queued" /\ rq[r1].prev_status \in Terminal
        /\ rq[r2].job_id = j /\ Running(r2)

\* C9: run_job never lets an exception of the pipeline escape: it returns
\* queued, failed or completed, stores the exception text on failure, and
\* with no other runner of the job the stored status is the returned one.
C9_RunJobNeverRaises ==
    [][\A r \in Reqs :
          ReturnStep(r) =>
              LET j == rq[r].job_id IN
              /\ rq'[r].ret \in {"queued", "failed", "completed"}
              /\ rq[r].pc = "except" => job'[j].error = rq[r].exc
              /\ (\A o \in Reqs \ {r} : ~(rq[o].job_id = j /\ (Running(o) \/ rq[o].pc = "claim")))
                    => job'[j].status = rq'[r].ret]_vars

\* The chunk contents of document d in a chunk table, in index order as
\* inserted.
ChunksOf(rows, d) == SelectSeq(rows, LAMBDA row : row.document_id = d)

\* C10: a processing run that fails leaves the committed chunks of its
\* document as they were, and a run that succeeds leaves the chunker's
\* output for the document's text.
C10_FailedRunKeepsChunks ==
    [][\A r \in Reqs :
          LET d == rq[r].document_id IN
          /\ (rq[r].pc = "except" /\ rq'[r].pc = "done")
                => ChunksOf(chunk', d) = ChunksOf(chunk, d)
          /\ (rq[r].pc = "index" /\ rq'[r].pc \in {"complete", "done"})
                => [i \in DOMAIN ChunksOf(chunk', d) |-> ChunksOf(chunk', d)[i].content]
                       = split_into_chunks(normalize_text(document[d].text),
                                           default_chunk_size, default_overlap)]_vars

\* ------------------------------------------- chunk table under reprocessing
\* The processing pipeline on texts of more than one chunk: the synchronous
\* route and the trigger endpoint on one document, at one instant of the
\* clock.
NextChunks ==
    \/ \E u \in Users, text \in LongTexts : UploadDocument(u, text)
    \/ \E u \in Users, d \in DocIds : EnqueueDocumentJob(u, d)
    \/ \E r \in Reqs, u \in Users, role \in Roles, j \in JobIds : RunJobNow(r, u, role, j)
    \/ \E r \in Reqs : Claim(r)
    \/ \E r \in Reqs, u \in Users, d \in DocIds : ProcessDocument(r, u, d)
    \/ \E r \in Reqs : ProcessRead(r)
    \/ \E r \in Reqs : ProcessWrite(r)
    \/ \E r \in Reqs : ProcessIndex(r)
    \/ \E r \in Reqs : RunJobExcept(r)
    \/ \E r \in Reqs : RunJobComplete(r)
    \/ \E r \in Reqs : ProcessDocumentExcept(r)
    \/ \E r \in Reqs : Respond(r)

SpecChunks == Init /\ [][NextChunks]_vars

\* The chunk_index values of the rows, in insertion order.
Indexes(rows) == [i \in DOMAIN rows |-> rows[i].chunk_index]

\* C11: in every committed state the chunk_index values of a document's
\* chunks are exactly 0..n-1, n being the number of its chunks, with no gap
\* and no duplicate, however processing runs of the document interleave.
C11_ChunkIndexesContiguous ==
    \A d \in DocIds :
        LET rows == ChunksOf(chunk, d) IN
        /\ Range(Indexes(rows)) = 0..(Len(rows) - 1)
        /\ \A i, k \in DOMAIN rows : i # k => rows[i].chunk_index # rows[k].chunk_index

\* A two-chunk document was processed by a synchronous request while a
\* runner of its job, triggered for at least the second time, is between
\* its claim and its outcome.
C11_Witness ==
    \E d \in DOMAIN document, r1, r2 \in Reqs, j \in DOMAIN job :
        /\ Len(ChunksOf(chunk, d)) = 2
        /\ job[j].document_id = d /\ job[j].attempts >= 2
        /\ rq[r1].kind = "job" /\ rq[r1].job_id = j /\ Running(r1)
        /\ rq[r2].kind = "sync" /\ rq[r2].document_id = d
        /\ rq[r2].pc = "done" /\ rq[r2].ret = "processed"

\* C12: every successful run on a document leaves it with the chunker's
\* output for its text, in order, indexed from 0, so a run on a document
\* that is already processed leaves the contents and indexes it found: the
\* rows are the same after the first successful run and after every later
\* one.
C12_ReprocessingIdempotent ==
    [][\A r \in Reqs :
          (rq[r].pc = "index" /\ rq'[r].pc \in {"complete", "done"}) =>
              LET d == rq[r].document_id
                  rows == ChunksOf(chunk', d)
                  expected == split_into_chunks(extract_text(document[d].text),
                                                default_chunk_size, default_overlap)
              IN /\ Len(rows) = Len(expected)
                 /\ \A i \in DOMAIN rows :
                       /\ rows[i].chunk_index = i - 1
                       /\ rows[i].content = expected[i]
                 /\ document[d].status = "processed"
                       => /\ Indexes(rows) = Indexes(ChunksOf(chunk, d))
                          /\ \A i \in DOMAIN rows :
                                rows[i].content = ChunksOf(chunk, d)[i].content]_vars

\* A two-chunk document whose job completed has been processed once more by
\* a synchronous request.
C12_Witness ==
    \E d \in DOMAIN document, r \in Reqs, j \in DOMAIN job :
        /\ job[j].document_id = d /\ job[j].status = "completed"
        /\ rq[r].kind = "sync" /\ rq[r].document_id = d
        /\ rq[r].pc = "done" /\ rq[r].ret = "processed"
        /\ Len(ChunksOf(chunk, d)) = 2

\* ------------------------------------------ registration, step by step
\* create_document and upload_document one statement at a time, for two
\* owners.  Both routes begin with ensure_runtime_schema, so the lookup and
\* the insert of a request run under the table locks it took.
OwnerDocIds == 1..MaxOwnerDocs

FreeReg(g) == reg[g].pc = "idle" /\ \A k \in Regs : reg[k].pc = "idle" => g <= k

\* The lookup of the routes without its user_id condition.
ExistingIdsOfAnyOwner(u, sha) ==
    {d \in DOMAIN document : document[d].sha256 = sha}

\* select id ... from document where user_id = :user_id and sha256 = :sha256
ExistingIds(u, sha) ==
    {d \in DOMAIN document : document[d].user_id = u /\ document[d].sha256 = sha}

\* order by created_at desc limit 1
Latest(ids) ==
    {d \in ids : \A e \in ids : document[e].created_at <= document[d].created_at}

\* The route up to its lookup: ensure_runtime_schema takes the locks; the
\* upload route refuses an empty file (the session is closed, which rolls
\* back and releases the locks).
RegisterBegin(g, route, u, content) ==
    /\ FreeReg(g)
    /\ lock = 0
    /\ route \in {"create", "upload"}
    /\ IF route = "upload" /\ content = <<>>
       THEN /\ reg' = [reg EXCEPT ![g] = [IdleReg EXCEPT !.pc = "done", !.route = route,
                                                        !.user_id = u, !.ret = "http 400"]]
            /\ UNCHANGED lock
       ELSE /\ reg' = [reg EXCEPT ![g] = [IdleReg EXCEPT !.pc = "select", !.route = route,
                                                        !.user_id = u, !.sha256 = content]]
            /\ lock' = RegLock(g)
    /\ UNCHANGED <<now, document, chunk, job, tx, rq, poll, ask, bucket, admitted, call>>

\* The lookup; on a hit the route commits and answers with the row found.
RegisterSelect(g) ==
    /\ reg[g].pc = "select"
    /\ lock = RegLock(g)
    /\ LET found == ExistingIds(reg[g].user_id, reg[g].sha256) IN
       IF found # {}
       THEN /\ \E d \in Latest(found) :
                 reg' = [reg EXCEPT ![g].pc = "done", ![g].id = d,
                                    ![g].is_duplicate = TRUE, ![g].ret = "ok"]
            /\ lock' = 0
       ELSE /\ reg' = [reg EXCEPT ![g].pc = "insert"]
            /\ UNCHANGED lock
    /\ UNCHANGED <<now, document, chunk, job, tx, rq, poll, ask, bucket, admitted, call>>

\* The insert and its commit.  The upload route has written the file under
\* storage_key; the create route stores no storage_key.
RegisterInsert(g) ==
    /\ reg[g].pc = "insert"
    /\ lock = RegLock(g)
    /\ DOMAIN document # OwnerDocIds
    /\ LET d == FreshId(DOMAIN document, OwnerDocIds) IN
       /\ document' = document @@
             (d :> [user_id |-> reg[g].user_id, status |-> "queued",
                    storage_key |-> (reg[g].route = "upload"),
                    sha256 |-> reg[g].sha256,
                    text |-> IF reg[g].route = "upload" THEN reg[g].sha256 ELSE <<>>,
                    created_at |-> now])
       /\ reg' = [reg EXCEPT ![g].pc = "done", ![g].id = d, ![g].ret = "ok"]
    /\ lock' = 0
    /\ UNCHANGED <<now, chunk, job, tx, rq, poll, ask, bucket, admitted, call>>

RegisterRespond(g) ==
    /\ reg[g].pc = "done"
    /\ reg' = [reg EXCEPT ![g] = IdleReg]
    /\ UNCHANGED <<now, document, chunk, job, lock, tx, rq, poll, ask, bucket, admitted, call>>

\* The contents registered: two files and the empty file.
Contents == { <<"a", ".">>, <<"b", ".">>, <<>> }

NextReg ==
    \/ \E g \in Regs, u \in Owners, content \in Contents :
            RegisterBegin(g, "create", u, content)
    \/ \E g \in Regs, u \in Owners, content \in Contents :
            RegisterBegin(g, "upload", u, content)
    \/ \E g \in Regs : RegisterSelect(g)
    \/ \E g \in Regs : RegisterInsert(g)
    \/ \E g \in Regs : RegisterRespond(g)

SpecReg == Init /\ [][NextReg]_vars

\* C13: at most one document exists per (owner, content hash); a request
\* whose owner already has a document with the hash answers with that
\* document and is_duplicate = true and creates no document and no job; a
\* request whose owner has none creates a new document, also when another
\* owner has one with the same hash.
C13_Deduplication ==
    /\ [](\A d, e \in DOMAIN document :
            (document[d].user_id = document[e].user_id
                /\ document[d].sha256 = document[e].sha256) => d = e)
    /\ [][\A g \in Regs :
            (reg[g].pc # "done" /\ reg'[g].pc = "done" /\ reg'[g].ret = "ok") =>
                LET u == reg[g].user_id
                    had == {d \in DOMAIN document :
                               document[d].user_id = u /\ document[d].sha256 = reg[g].sha256}
                IN /\ job' = job
                   /\ had # {} => /\ reg'[g].is_duplicate
                                  /\ reg'[g].id \in had
                                  /\ document' = document
                   /\ had = {} => /\ ~reg'[g].is_duplicate
                                  /\ reg'[g].id \notin DOMAIN document
                                  /\ DOMAIN document' = DOMAIN document \cup {reg'[g].id}
                                  /\ document'[reg'[g].id].user_id = u
                                  /\ document'[reg'[g].id].sha256 = reg[g].sha256]_vars

\* Both owners hold a document with the same hash, and a second request of
\* one of them for that hash was answered as a duplicate while another
\* registration is in flight.
C13_Witness ==
    \E d, e \in DOMAIN document, g, h \in Regs :
        /\ d # e
        /\ document[d].sha256 = document[e].sha256
        /\ document[d].user_id # document[e].user_id
        /\ reg[g].pc = "done" /\ reg[g].is_duplicate /\ reg[g].id = d
        /\ h # g /\ reg[h].pc \in {"select", "insert"}

\* -------------------------------------------------------- rate limiter
\* enforce_rate_limit, one statement at a time.  It is called by ask_chat
\* after ensure_runtime_schema, that is, by a request that holds the table
\* locks; the steps themselves only touch _BUCKETS.
FreeAsk(a) == ask[a].pc = "idle" /\ \A k \in Asks : ask[k].pc = "idle" => a <= k

\* The tables are locked whether or not another session holds them.
SchemaLockIgnored == TRUE

\* ensure_runtime_schema's ALTER TABLE waits until no other session holds
\* the tables.
SchemaLockFree == lock = 0

\* len(bucket) >= settings.rate_limit_per_minute
Full(n) == n >= rate_limit_per_minute

\* The eviction test that also drops a timestamp exactly one window old.
ExpiredAtWindow(t, stamp) == t - stamp >= window_seconds

\* now - bucket[0] > window_seconds
Expired(t, stamp) == t - stamp > window_seconds

\* Time passes.
Elapse(d) ==
    /\ now + d <= MaxClock
    /\ now' = now + d
    /\ UNCHANGED <<document, chunk, job, lock, tx, rq, poll, front>>

\* POST /chat/ask arrives: the request is about to call
\* ensure_runtime_schema.
AskArrive(a, u, question, document_id) ==
    /\ FreeAsk(a)
    /\ ask' = [ask EXCEPT ![a] = [IdleAsk EXCEPT !.pc = "schema", !.user_id = u,
                                                 !.question = question,
                                                 !.document_id = document_id]]
    /\ UNCHANGED <<now, document, chunk, job, lock, tx, rq, poll, reg, bucket, admitted, call>>

\* ensure_runtime_schema and ensure_user_exists: the request holds the
\* table locks from here until its session commits or is closed.
AskBegin(a) ==
    /\ ask[a].pc = "schema"
    /\ SchemaLockFree
    /\ lock' = AskLock(a)
    /\ ask' = [ask EXCEPT ![a].pc = "limit"]
    /\ UNCHANGED <<now, document, chunk, job, tx, rq, poll, reg, bucket, admitted, call>>

\* now = time.time(); bucket = _BUCKETS[user_id]
RateNow(a) ==
    /\ ask[a].pc = "limit"
    /\ ask' = [ask EXCEPT ![a].pc = "evict", ![a].t = now]
    /\ UNCHANGED <<now, document, chunk, job, lock, tx, rq, poll, reg, bucket, admitted, call>>

\* while bucket and now - bucket[0] > window_seconds
RateEvictTest(a) ==
    /\ ask[a].pc = "evict"
    /\ LET b == bucket[ask[a].user_id] IN
       ask' = [ask EXCEPT ![a].pc = IF b # <<>> /\ Expired(ask[a].t, b[1])
                                    THEN "popleft" ELSE "count"]
    /\ UNCHANGED <<now, document, chunk, job, lock, tx, rq, poll, reg, bucket, admitted, call>>

\* bucket.popleft(), which raises IndexError on an empty deque.
RatePopLeft(a) ==
    /\ ask[a].pc = "popleft"
    /\ LET u == ask[a].user_id IN
       IF bucket[u] = <<>>
       THEN /\ ask' = [ask EXCEPT ![a].pc = "done", ![a].t = 0, ![a].ret = "raised"]
            /\ lock' = IF lock = AskLock(a) THEN 0 ELSE lock
            /\ UNCHANGED bucket
       ELSE /\ bucket' = [bucket EXCEPT ![u] = Tail(@)]
            /\ ask' = [ask EXCEPT ![a].pc = "evict"]
            /\ UNCHANGED lock
    /\ UNCHANGED <<now, document, chunk, job, tx, rq, poll, reg, admitted, call>>

\* if len(bucket) >= limit: raise HTTPException(429).  The exception closes
\* the session, which rolls back and releases the locks.
RateCount(a) ==
    /\ ask[a].pc = "count"
    /\ LET n == Len(bucket[ask[a].user_id]) IN
       IF Full(n)
       THEN /\ ask' = [ask EXCEPT ![a].pc = "done", ![a].t = 0, ![a].ret = "http 429"]
            /\ lock' = IF lock = AskLock(a) THEN 0 ELSE lock
       ELSE /\ ask' = [ask EXCEPT ![a].pc = "append"]
            /\ UNCHANGED lock
    /\ UNCHANGED <<now, document, chunk, job, tx, rq, poll, reg, bucket, admitted, call>>

\* The timestamp is appended to one deque shared by all identities.
RateAppendShared(a) ==
    /\ ask[a].pc = "append"
    /\ bucket' = [u \in Owners |-> Append(bucket[u], ask[a].t)]
    /\ admitted' = [admitted EXCEPT ![ask[a].user_id] = Append(@, ask[a].t)]
    /\ ask' = [ask EXCEPT ![a].pc = "retrieve", ![a].t = 0]
    /\ UNCHANGED <<now, document, chunk, job, lock, tx, rq, poll, reg, call>>

\* bucket.append(now)
RateAppend(a) ==
    /\ ask[a].pc = "append"
    /\ LET u == ask[a].user_id IN
       /\ bucket' = [bucket EXCEPT ![u] = Append(@, ask[a].t)]
       /\ admitted' = [admitted EXCEPT ![u] = Append(@, ask[a].t)]
    /\ ask' = [ask EXCEPT ![a].pc = "retrieve", ![a].t = 0]
    /\ UNCHANGED <<now, document, chunk, job, lock, tx, rq, poll, reg, call>>

\* ------------------------------------------------------------ retrieval
\* str.lower() on the alphabet of the model, whose capitals are F and B.
lower(s) ==
    [i \in DOMAIN s |-> IF s[i] = "F" THEN "f" ELSE IF s[i] = "B" THEN "b" ELSE s[i]]

\* str.split(): the maximal runs of non-blank characters; cur is the run
\* being read.
RECURSIVE words(_, _)
words(s, cur) ==
    LET run == IF cur = <<>> THEN <<>> ELSE <<cur>> IN
    IF s = <<>> THEN run
    ELSE IF s[1] = " " THEN run \o words(Tail(s), <<>>)
    ELSE words(Tail(s), Append(cur, s[1]))

\* " ".join(parts)
RECURSIVE join(_)
join(parts) ==
    IF parts = <<>> THEN <<>>
    ELSE IF Len(parts) = 1 THEN parts[1]
    ELSE parts[1] \o <<" ">> \o join(Tail(parts))

\* " ".join(question.strip().lower().split())
rewrite_query(question) == join(words(lower(strip(question)), <<>>))

Take(seq, n) == SubSeq(seq, 1, IF Len(seq) < n THEN Len(seq) ELSE n)

\* [term for term in normalized.split() if len(term) >= 3][:10]
query_terms(normalized) ==
    Take(SelectSeq(words(normalized, <<>>), LAMBDA term : Len(term) >= 3), 10)

\* term in content
contains(term, content) ==
    \E i \in 1..(Len(content) - Len(term) + 1) :
        SubSeq(content, i, i + Len(term) - 1) = term

\* sum(1 for term in query_terms if term in content), content lowercased.
keyword_score(content, terms) ==
    Cardinality({i \in DOMAIN terms : contains(terms[i], lower(content))})

\* The states of the vector store a call can meet.
VectorStates == {"present", "missing", "unreachable", "timeout"}

\* query_vectors: no client or no collection gives {}; otherwise the
\* question is embedded, outside the try block, and embed_text raises for
\* the configured dimension.  A store that is reachable creates a missing
\* collection.  No point is ever stored (upsert_chunk_vectors raises on the
\* same embed_text), so a search would return no hit.
query_vectors(user_id, question, vs) ==
    IF vs \in {"unreachable", "timeout"} THEN [raised |-> FALSE, scores |-> <<>>]
    ELSE IF embed_raises THEN [raised |-> TRUE, scores |-> <<>>]
    ELSE [raised |-> FALSE, scores |-> <<>>]

\* vector_scores.get(chunk_id, 0.0); a row is identified by its document
\* and index.
vector_score(scores, row) ==
    LET key == <<row.document_id, row.chunk_index>> IN
    IF key \in DOMAIN scores THEN scores[key] ELSE 0

Reverse(seq) == [i \in DOMAIN seq |-> seq[Len(seq) + 1 - i]]

\* The candidate query without its user_id condition.
CandidatesOfAnyOwner(chunks, docs, user_id, document_id) ==
    Take(Reverse(SelectSeq(chunks, LAMBDA c :
            /\ c.document_id \in DOMAIN docs
            /\ (document_id # 0 => c.document_id = document_id))),
         retrieval_limit)

\* select ... from chunk c join document d on d.id = c.document_id
\* where c.user_id = :user_id [and c.document_id = :document_id]
\* order by c.created_at desc limit :limit, over the tables chunks and docs.
\* Rows are kept in the order of the transactions that wrote them; the
\* documents asked about have one chunk each, so no two candidates share a
\* created_at.
Candidates(chunks, docs, user_id, document_id) ==
    Take(Reverse(SelectSeq(chunks, LAMBDA c :
            /\ c.user_id = user_id
            /\ c.document_id \in DOMAIN docs
            /\ (document_id # 0 => c.document_id = document_id))),
         retrieval_limit)

\* The scored rows, and a row made up from a hit of the vector store that
\* has no row among the candidates.
ScoredWithHits(rows, terms, scores) ==
    LET known == {<<rows[i].document_id, rows[i].chunk_index>> : i \in DOMAIN rows}
        hits == DOMAIN scores \ known
        items == SelectSeq([i \in DOMAIN rows |->
                               [score |-> keyword_score(rows[i].content, terms)
                                              + vector_score(scores, rows[i]),
                                row |-> rows[i]]],
                           LAMBDA item : item.score > 0)
    IN IF hits = {} THEN items
       ELSE LET key == CHOOSE k \in hits : TRUE IN
            Append(items, [score |-> scores[key],
                           row |-> [document_id |-> key[1], user_id |-> "u1",
                                    chunk_index |-> key[2], content |-> <<>>]])

\* The rows with their scores, those with score > 0 only.
Scored(rows, terms, scores) ==
    SelectSeq([i \in DOMAIN rows |->
                  [score |-> keyword_score(rows[i].content, terms)
                                 + vector_score(scores, rows[i]),
                   row |-> rows[i]]],
              LAMBDA item : item.score > 0)

\* The scored list left in the order of the candidates.
KeepOrder(items) == items

\* list.sort(key = score, reverse = True): stable, so items of equal score
\* keep their order.
RECURSIVE SortByScore(_)
SortByScore(items) ==
    IF items = <<>> THEN <<>>
    ELSE LET best == CHOOSE i \in DOMAIN items :
                        /\ \A k \in DOMAIN items : items[k].score <= items[i].score
                        /\ \A k \in 1..(i - 1) : items[k].score < items[i].score
             rest == [k \in 1..(Len(items) - 1) |->
                         IF k < best THEN items[k] ELSE items[k + 1]]
         IN <<items[best]>> \o SortByScore(rest)

\* Document d was registered after document e: created_at, and for equal
\* readings of the model's coarse clock the order in which ids were given.
Newer(docs, d, e) ==
    \/ docs[d].created_at > docs[e].created_at
    \/ docs[d].created_at = docs[e].created_at /\ d > e

\* Row a comes before row b in "order by d.created_at desc, c.chunk_index asc".
FallbackBefore(docs, a, b) ==
    \/ Newer(docs, a.document_id, b.document_id)
    \/ a.document_id = b.document_id /\ a.chunk_index < b.chunk_index

RECURSIVE SortFallback(_, _)
SortFallback(docs, rows) ==
    IF rows = <<>> THEN <<>>
    ELSE LET first == CHOOSE i \in DOMAIN rows :
                         \A k \in DOMAIN rows : k # i => FallbackBefore(docs, rows[i], rows[k])
             rest == [k \in 1..(Len(rows) - 1) |->
                         IF k < first THEN rows[k] ELSE rows[k + 1]]
         IN <<rows[first]>> \o SortFallback(docs, rest)

\* The fallback query: chunks of the owner's processed documents.
Fallback(chunks, docs, user_id, document_id) ==
    Take(SortFallback(docs, SelectSeq(chunks, LAMBDA c :
            /\ c.user_id = user_id
            /\ c.document_id \in DOMAIN docs
            /\ docs[c.document_id].status = "processed"
            /\ (document_id # 0 => c.document_id = document_id))),
         rerank_top_k)

\* hybrid_retrieve from line 36 on, for the scores query_vectors returned:
\* the best scored candidates, or the fallback rows when nothing scored.
RankedRows(chunks, docs, user_id, question, document_id, scores) ==
    LET normalized == rewrite_query(question)
        terms == query_terms(normalized)
        rows == Candidates(chunks, docs, user_id, document_id)
        scored == SortByScore(Scored(rows, terms, scores))
    IN IF scored # <<>>
       THEN [i \in DOMAIN Take(scored, rerank_top_k) |-> scored[i].row]
       ELSE Fallback(chunks, docs, user_id, document_id)

\* hybrid_retrieve over the tables chunks and docs: the rows it returns, or
\* that it raised.
RetrieveFrom(chunks, docs, user_id, question, document_id, vs) ==
    LET vector_scores == query_vectors(user_id, rewrite_query(question), vs)
    IN IF vector_scores.raised THEN [raised |-> TRUE, rows |-> <<>>]
       ELSE [raised |-> FALSE,
             rows |-> RankedRows(chunks, docs, user_id, question, document_id,
                                 vector_scores.scores)]

\* hybrid_retrieve(db, user_id, question, document_id) on the committed
\* tables.
hybrid_retrieve(user_id, question, document_id, vs) ==
    RetrieveFrom(chunk, document, user_id, question, document_id, vs)

\* ask_chat from hybrid_retrieve to its commit: the answer is built from
\* the rows and stored; an exception of hybrid_retrieve ends the request
\* with the session rolled back.
AskRetrieve(a) ==
    /\ ask[a].pc = "retrieve"
    /\ lock = AskLock(a)
    /\ \E vs \in VectorStates :
         LET res == hybrid_retrieve(ask[a].user_id, ask[a].question,
                                    ask[a].document_id, vs)
         IN ask' = [ask EXCEPT ![a].pc = "done",
                               ![a].rows = res.rows,
                               ![a].ret = IF res.raised THEN "raised" ELSE "ok"]
    /\ lock' = 0
    /\ UNCHANGED <<now, document, chunk, job, tx, rq, poll, reg, bucket, admitted, call>>

AskRespond(a) ==
    /\ ask[a].pc = "done"
    /\ ask' = [ask EXCEPT ![a] = IdleAsk]
    /\ UNCHANGED <<now, document, chunk, job, lock, tx, rq, poll, reg, bucket, admitted, call>>

\* --------------------------------------------- rate limiter, one identity
\* Chat requests of one identity over an empty library, with the clock
\* standing still or jumping by one window or one second more.
Question == <<"f", "o", "o">>

NextRate ==
    \/ \E d \in {window_seconds, window_seconds + 1} : Elapse(d)
    \/ \E a \in Asks : AskArrive(a, "u1", Question, 0)
    \/ \E a \in Asks : AskBegin(a)
    \/ \E a \in Asks : RateNow(a)
    \/ \E a \in Asks : RateEvictTest(a)
    \/ \E a \in Asks : RatePopLeft(a)
    \/ \E a \in Asks : RateCount(a)
    \/ \E a \in Asks : RateAppend(a)
    \/ \E a \in Asks : AskRetrieve(a)
    \/ \E a \in Asks : AskRespond(a)

SpecRate == Init /\ [][NextRate]_vars

\* The admitted timestamps of identity u that are at most one window old at
\* time t.
InWindow(u, t) == {i \in DOMAIN admitted[u] : t - admitted[u][i] <= window_seconds}

\* The number of times stamp occurs in seq.
Count(seq, stamp) == Cardinality({i \in DOMAIN seq : seq[i] = stamp})

\* C14: a check is admitted iff fewer than the per-minute limit of the
\* previously admitted timestamps are at most 60 seconds old at the time of
\* the check; so the 61st check within a window is rejected and a check 61
\* seconds after a burst is admitted.
C14_AdmittedIffBelowLimit ==
    [][\A a \in Asks :
          (ask[a].pc = "count" /\ ask'[a].pc # "count") =>
              LET u == ask[a].user_id
                  recent == Cardinality(InWindow(u, ask[a].t))
              IN /\ (ask'[a].pc = "append") <=> (recent < rate_limit_per_minute)
                 /\ (ask'[a].pc = "done" /\ ask'[a].ret = "http 429")
                        <=> (recent >= rate_limit_per_minute)
                 /\ (recent = 60 /\ rate_limit_per_minute = 60) => ask'[a].pc = "done"
                 /\ (\A i \in DOMAIN admitted[u] : ask[a].t - admitted[u][i] >= 61)
                        => ask'[a].pc = "append"]_vars

\* A check at second 61 was admitted after a burst of 60 at second 0, while
\* the rejected 61st check of the burst still awaits its response.
C14_Witness ==
    \E a, b \in Asks :
        /\ ask[a].pc = "done" /\ ask[a].ret = "http 429"
        /\ ask[b].pc = "retrieve"
        /\ Len(admitted["u1"]) = 61
        /\ Count(admitted["u1"], 0) = 60
        /\ Count(admitted["u1"], 61) = 1

\* C15: whatever checks are in flight together, the window of an identity
\* never holds more than the per-minute limit of timestamps, holds admitted
\* timestamps only, and holds every admitted timestamp that is at most 60
\* seconds old.
C15_WindowConsistent ==
    \A u \in Owners :
        /\ Len(bucket[u]) <= rate_limit_per_minute
        /\ \A stamp \in Range(bucket[u]) \cup Range(admitted[u]) :
              /\ Count(bucket[u], stamp) <= Count(admitted[u], stamp)
              /\ now - stamp <= window_seconds
                    => Count(bucket[u], stamp) = Count(admitted[u], stamp)

\* One check is between its eviction and its append, after it evicted an
\* expired timestamp, while another request of the identity has arrived and
\* waits for the table locks.
C15_Witness ==
    \E a, b \in Asks :
        /\ a # b
        /\ ask[a].user_id = ask[b].user_id
        /\ ask[a].pc \in {"count", "append"}
        /\ ask[b].pc = "schema"
        /\ Len(bucket[ask[a].user_id]) < Len(admitted[ask[a].user_id])
        /\ bucket[ask[a].user_id] # <<>>

\* ------------------------------------------------- library and questions
\* The documents uploaded in the chat specifications, in upload order: the
\* first by u2, the others by u1, one chunk each.
Foo == <<"f", "o", "o">>
Bar == <<"b", "a", "r">>
Baz == <<"b", "a", "z">>
Qux == <<"q", "u", "x">>

Sentence(parts) == join(parts) \o <<".">>

LibraryOwner(n) == IF n = 1 THEN "u2" ELSE "u1"

LibraryContent(n) ==
    CASE n = 1 -> Sentence(<<Foo, Bar, Baz>>)
      [] n = 2 -> <<"F", "o", "o", ".">>
      [] n = 3 -> Sentence(<<Qux>>)
      [] n = 4 -> Sentence(<<Foo, Bar>>)
      [] n = 5 -> Sentence(<<Foo, Bar, Baz>>)
      [] n = 6 -> Sentence(<<Bar>>)
      [] n = 7 -> Sentence(<<Bar, Baz>>)
      [] n = 8 -> Sentence(<<Baz>>)
      [] OTHER -> Sentence(<<Foo, Baz>>)

\* Questions: capitals and a run of blanks; three terms; no term of any
\* document; ten times one term and an eleventh term.
QuestionFooBar == <<"F", "o", "o", " ", " ", "B", "a", "r">>
QuestionAll == join(<<Foo, Bar, Baz>>)
QuestionNone == <<"z", "z", "z">>
QuestionEleven == join([i \in 1..11 |-> IF i = 11 THEN Foo ELSE Qux])

\* ------------------------------------------ chat over a growing library
\* Uploads of the library, the synchronous processing route called by
\* either owner on any document, and chat requests of either owner.
NextLibrary(g) ==
    LET n == Cardinality(DOMAIN document) + 1 IN
    /\ DOMAIN document # OwnerDocIds
    /\ RegisterBegin(g, "upload", LibraryOwner(n), LibraryContent(n))

ChatAsksLeft == Len(admitted["u1"]) + Len(admitted["u2"]) < MaxChatAsks

NextChat ==
    \/ \E g \in {1} : NextLibrary(g)
    \/ \E g \in Regs : RegisterSelect(g)
    \/ \E g \in Regs : RegisterInsert(g)
    \/ \E g \in Regs : RegisterRespond(g)
    \/ \E r \in {1}, u \in Owners, d \in OwnerDocIds : ProcessDocument(r, u, d)
    \/ \E r \in Reqs : ProcessRead(r)
    \/ \E r \in Reqs : ProcessWrite(r)
    \/ \E r \in Reqs : ProcessIndex(r)
    \/ \E r \in Reqs : ProcessDocumentExcept(r)
    \/ \E r \in Reqs : Respond(r)
    \/ \E a \in {1}, u \in Owners, q \in {QuestionFooBar, QuestionNone}, f \in {0, 2} :
            ChatAsksLeft /\ AskArrive(a, u, q, f)
    \/ \E a \in Asks : AskBegin(a)
    \/ \E a \in Asks : RateNow(a)
    \/ \E a \in Asks : RateEvictTest(a)
    \/ \E a \in Asks : RateCount(a)
    \/ \E a \in Asks : RateAppend(a)
    \/ \E a \in Asks : AskRetrieve(a)
    \/ \E a \in Asks : AskRespond(a)

SpecChat == Init /\ [][NextChat]_vars

\* ------------------------------------------------ ranking over a library
\* The library of MaxScoreDocs documents after any subset of them has been
\* processed: the state reached by uploading the documents in order and
\* processing those of the subset in order while the vector store is
\* unreachable; document d was uploaded at clock reading d.
ScoreDocIds == 1..MaxScoreDocs

LibraryDocument(d, processed) ==
    [user_id |-> LibraryOwner(d),
     status |-> IF processed THEN "processed" ELSE "queued",
     storage_key |-> TRUE, sha256 |-> LibraryContent(d),
     text |-> LibraryContent(d), created_at |-> d]

RECURSIVE ProcessedRows(_, _)
ProcessedRows(d, S) ==
    IF d > MaxScoreDocs THEN <<>>
    ELSE LET chunks == split_into_chunks(extract_text(LibraryContent(d)),
                                         default_chunk_size, default_overlap)
             rows == IF d \in S
                     THEN InsertRows(d, LibraryOwner(d), chunks, Len(chunks))
                     ELSE <<>>
         IN rows \o ProcessedRows(d + 1, S)

InitScore ==
    /\ now = MaxScoreDocs
    /\ job = <<>>
    /\ lock = 0
    /\ tx = NoTx
    /\ rq = [r \in Reqs |-> IdleReq]
    /\ poll = [pc |-> "sleep", ids |-> <<>>, wait |-> 0]
    /\ reg = [g \in Regs |-> IdleReg]
    /\ ask = [a \in Asks |-> IdleAsk]
    /\ bucket = [u \in Owners |-> <<>>]
    /\ admitted = [u \in Owners |-> <<>>]
    /\ call = NoCall
    /\ \E S \in SUBSET ScoreDocIds :
         /\ document = [d \in ScoreDocIds |-> LibraryDocument(d, d \in S)]
         /\ chunk = ProcessedRows(1, S)

NextScore ==
    \/ \E a \in {1}, u \in Owners,
          q \in {QuestionFooBar, QuestionAll, QuestionNone, QuestionEleven}, f \in {0, 5} :
            Len(admitted[u]) < MaxChatAsks /\ AskArrive(a, u, q, f)
    \/ \E a \in Asks : AskBegin(a)
    \/ \E a \in Asks : RateNow(a)
    \/ \E a \in Asks : RateEvictTest(a)
    \/ \E a \in Asks : RateCount(a)
    \/ \E a \in Asks : RateAppend(a)
    \/ \E a \in Asks : AskRetrieve(a)
    \/ \E a \in Asks : AskRespond(a)

SpecScore == InitScore /\ [][NextScore]_vars

\* ---------------------------------------------------- retrieval claims
\* The step of a chat request in which hybrid_retrieve runs.
Retrieved(a) == ask[a].pc = "retrieve" /\ ask'[a].pc = "done"

\* The chunks of owner u within the document filter f (0 for none).
OwnChunks(u, f) ==
    SelectSeq(chunk, LAMBDA c : c.user_id = u /\ (f # 0 => c.document_id = f))

\* The number of the question's terms (words of at least three characters
\* of the normalized question, the first ten) found in a chunk's text.
TermOverlap(question, content) ==
    LET long == SelectSeq(words(rewrite_query(question), <<>>),
                          LAMBDA w : Len(w) >= 3)
        n == IF Len(long) < 10 THEN Len(long) ELSE 10
    IN Cardinality({i \in 1..n : contains(long[i], lower(content))})

\* C16: when no chunk of the owner (within the filter) has a term of the
\* question and the owner has a chunk of a processed document (within the
\* filter), retrieval returns a non-empty result of at most rerank_top_k
\* chunks, all of processed documents, newest document first and then by
\* chunk index.
C16_FallbackInvariant ==
    [][\A a \in Asks :
         Retrieved(a) =>
           LET u == ask[a].user_id
               q == ask[a].question
               own == OwnChunks(u, ask[a].document_id)
               res == ask'[a].rows
           IN ( /\ \A i \in DOMAIN own : TermOverlap(q, own[i].content) = 0
                /\ \E i \in DOMAIN own :
                      document[own[i].document_id].status = "processed" )
              => /\ ask'[a].ret = "ok"
                 /\ res # <<>>
                 /\ Len(res) <= rerank_top_k
                 /\ \A i \in DOMAIN res :
                       document[res[i].document_id].status = "processed"
                 /\ \A i, k \in DOMAIN res :
                       i < k => FallbackBefore(document, res[i], res[k])]_vars

\* C17: when the owner has a stored chunk (within the filter) and
\* hybrid_retrieve returns, its result is not empty, whatever the status of
\* the chunk's document.
C17_NeverEmptyWithContent ==
    [][\A a \in Asks :
         (Retrieved(a) /\ ask'[a].ret = "ok"
              /\ OwnChunks(ask[a].user_id, ask[a].document_id) # <<>>)
           => ask'[a].rows # <<>>]_vars

\* C18: when hybrid_retrieve returns and some chunk of the owner (within
\* the filter) has a term of the question, the result consists of distinct
\* chunks with a positive term overlap, as many as there are up to
\* rerank_top_k, in non-increasing order of term overlap, and no chunk left
\* out has a larger overlap than one returned.
C18_ScoredRanking ==
    [][\A a \in Asks :
         (Retrieved(a) /\ ask'[a].ret = "ok") =>
           LET q == ask[a].question
               own == OwnChunks(ask[a].user_id, ask[a].document_id)
               pos == {i \in DOMAIN own : TermOverlap(q, own[i].content) > 0}
               res == ask'[a].rows
               n == Cardinality(pos)
           IN pos # {} =>
                /\ Len(res) = IF n < rerank_top_k THEN n ELSE rerank_top_k
                /\ \A i \in DOMAIN res : \E k \in pos : own[k] = res[i]
                /\ \A i, k \in DOMAIN res :
                      i < k => /\ res[i] # res[k]
                               /\ TermOverlap(q, res[i].content)
                                      >= TermOverlap(q, res[k].content)
                /\ \A k \in pos : own[k] \notin Range(res) =>
                      \A i \in DOMAIN res :
                          TermOverlap(q, res[i].content)
                              >= TermOverlap(q, own[k].content)]_vars

\* Six chunks of u1 have a term of the question; the five returned start
\* with the one that has all three terms and leave one of overlap 1 out.
C18_Witness ==
    \E a \in Asks :
        /\ ask[a].pc = "done" /\ ask[a].ret = "ok"
        /\ ask[a].user_id = "u1" /\ ask[a].question = QuestionAll
        /\ ask[a].document_id = 0
        /\ Cardinality({i \in DOMAIN chunk :
                          /\ chunk[i].user_id = "u1"
                          /\ TermOverlap(QuestionAll, chunk[i].content) > 0}) = 6
        /\ Len(ask[a].rows) = rerank_top_k
        /\ TermOverlap(QuestionAll, ask[a].rows[1].content) = 3
        /\ TermOverlap(QuestionAll, ask[a].rows[rerank_top_k].content) = 1

\* The documents of owner u.
OwnDocuments(u) ==
    [d \in {e \in DOMAIN document : document[e].user_id = u} |-> document[d]]

\* C19: every chunk hybrid_retrieve returns is owned by the caller and, with
\* a document filter, belongs to that document; and its outcome is the one
\* it has on the caller's documents and chunks alone.
C19_TenantIsolation ==
    [][\A a \in Asks :
         Retrieved(a) =>
           LET u == ask[a].user_id
               f == ask[a].document_id
               res == ask'[a].rows
           IN /\ \A i \in DOMAIN res :
                    /\ res[i].user_id = u
                    /\ f # 0 => res[i].document_id = f
              /\ \E vs \in VectorStates :
                    LET alone == RetrieveFrom(OwnChunks(u, 0), OwnDocuments(u),
                                              u, ask[a].question, f, vs)
                    IN /\ res = alone.rows
                       /\ (ask'[a].ret = "raised") = alone.raised]_vars

\* u1 has been given chunks while u2 holds a chunk with a term of the same
\* question.
C19_Witness ==
    \E a \in Asks :
        /\ ask[a].pc = "done" /\ ask[a].ret = "ok"
        /\ ask[a].user_id = "u1"
        /\ ask[a].rows # <<>>
        /\ \E i \in DOMAIN chunk :
              /\ chunk[i].user_id = "u2"
              /\ TermOverlap(ask[a].question, chunk[i].content) > 0

\* C20: the vector upsert of a processing run and the vector query of a
\* retrieval never raise: a run fails at its index step for a database
\* error only, and hybrid_retrieve always returns.
C20_VectorSignalOptional ==
    [][/\ \A r \in Reqs :
            (rq[r].pc = "index" /\ rq'[r].pc = "except")
                => rq'[r].exc = "database error"
       /\ \A a \in Asks : Retrieved(a) => ask'[a].ret = "ok"]_vars

\* ------------------------------------------------- the worker loop, failing
\* The except clause of the worker's loop, main.py lines 49-51: the error is
\* printed and the loop goes on to its sleep.  The ids not yet triggered are
\* dropped with the cycle.
LoopExceptReraise(p) == [p EXCEPT !.pc = "terminated"]

LoopExcept(p) == [pc |-> "sleep", ids |-> <<>>, wait |-> 0]

\* fetch_queued_job_ids raises: the database refuses the connection or the
\* query.
PollFetchRaise ==
    /\ poll.pc = "sleep"
    /\ poll' = [pc |-> "error", ids |-> <<>>, wait |-> 0]
    /\ UNCHANGED <<now, document, chunk, job, lock, tx, rq, front>>

\* The worker's run_job raises before its request reaches the API: the
\* connection is refused.
PollTriggerRaise ==
    /\ poll.pc = "run"
    /\ poll.wait = 0
    /\ poll.ids # <<>>
    /\ poll' = [poll EXCEPT !.pc = "error"]
    /\ UNCHANGED <<now, document, chunk, job, lock, tx, rq, front>>

\* The worker's run_job raises while its request is being served: the
\* client's 60 second timeout.  The request goes on in the API.
PollTriggerTimeout ==
    /\ poll.pc = "run"
    /\ poll.wait # 0
    /\ poll' = [poll EXCEPT !.pc = "error", !.wait = 0]
    /\ UNCHANGED <<now, document, chunk, job, lock, tx, rq, front>>

PollLoopExcept ==
    /\ poll.pc = "error"
    /\ poll' = LoopExcept(poll)
    /\ UNCHANGED <<now, document, chunk, job, lock, tx, rq, front>>

\* Time passes while a queued job waits for its next_run_at.
Waiting == {j \in DOMAIN job : job[j].status = "queued" /\ job[j].next_run_at > now}

Wait ==
    /\ Waiting # {}
    /\ now' = now + TickSeconds
    /\ UNCHANGED <<document, chunk, job, lock, tx, rq, poll, front>>

\* ------------------------------------------------- the queue, with fairness
\* Uploads, enqueueing, the worker loop with its failures and the pipeline.
\* Every step of the worker and of a request being served is taken if it
\* stays possible, and time passes; a failing fetch or trigger may happen at
\* any time but need not.
NextLive ==
    \/ Wait
    \/ \E u \in Users, text \in Texts : UploadDocument(u, text)
    \/ \E u \in Users, d \in DocIds : EnqueueDocumentJob(u, d)
    \/ \E r \in Reqs : Claim(r)
    \/ \E r \in Reqs : ProcessRead(r)
    \/ \E r \in Reqs : ProcessWrite(r)
    \/ \E r \in Reqs : ProcessIndex(r)
    \/ \E r \in Reqs : RunJobExcept(r)
    \/ \E r \in Reqs : RunJobComplete(r)
    \/ \E r \in Reqs : Respond(r)
    \/ PollFetch
    \/ \E r \in Reqs : PollRunJob(r)
    \/ PollResponse
    \/ PollSleep
    \/ PollFetchRaise
    \/ PollTriggerRaise
    \/ PollTriggerTimeout
    \/ PollLoopExcept

\* The steps of the request served in slot r after process_document_sync
\* has read its document, and the steps of the worker loop other than a
\* failing fetch or trigger.
Serve(r) ==
    \/ Claim(r)
    \/ ProcessWrite(r)
    \/ ProcessIndex(r)
    \/ RunJobExcept(r)
    \/ RunJobComplete(r)
    \/ Respond(r)

\* ProcessRead(r) can be taken exactly when this holds.
CanRead(r) == rq[r].pc = "process" /\ Supported(r) /\ lock \in {0, r}

WorkerStep ==
    \/ PollFetch
    \/ \E r \in Reqs : PollRunJob(r)
    \/ PollResponse
    \/ PollSleep
    \/ PollLoopExcept

\* A fetch or trigger of the worker fails in this step.
WorkerFails == poll.pc # "error" /\ poll'.pc = "error"

\* Weak fairness of time, of the worker loop and of each request being
\* served; for ProcessRead it is written with its enabling condition.
Fairness ==
    /\ WF_vars(Wait)
    /\ WF_vars(WorkerStep)
    /\ \A r \in Reqs : WF_vars(Serve(r))
    /\ \A r \in Reqs : []<>(~CanRead(r)) \/ []<><<ProcessRead(r)>>_vars

SpecLive == Init /\ [][NextLive]_vars /\ Fairness

\* The API process stops while request r is executing run_job after its
\* claim: the database rolls the open transaction back and releases its
\* locks, and a worker waiting for the response gets a connection error.
Crash(r) ==
    /\ Running(r)
    /\ rq' = [rq EXCEPT ![r] = IdleReq]
    /\ lock' = IF lock = r THEN 0 ELSE lock
    /\ tx' = IF lock = r THEN NoTx ELSE tx
    /\ poll' = IF poll.wait = r
               THEN [poll EXCEPT !.pc = "error", !.wait = 0]
               ELSE poll
    /\ UNCHANGED <<now, document, chunk, job, front>>

NextCrash ==
    \/ NextLive
    \/ \E r \in Reqs : Crash(r)

SpecCrash == Init /\ [][NextCrash]_vars /\ Fairness

\* ------------------------------------------------------- queue liveness
\* From some point on no fetch or trigger of the worker fails.
FailuresStop == <>[][~WorkerFails]_vars

\* No request is executing run_job for job j.
NoRunner(j) ==
    \A r \in Reqs : ~(rq[r].kind = "job" /\ rq[r].job_id = j /\ rq[r].pc \notin {"idle", "done"})

\* C21: when the worker's fetches and triggers stop failing, every enqueued
\* job eventually is completed or failed, and no job is executed more often
\* than its max_attempts.
C21_EventuallyTerminal ==
    /\ [](\A j \in DOMAIN job : job[j].attempts <= job[j].max_attempts)
    /\ FailuresStop =>
          \A j \in JobIds :
              (j \in DOMAIN job) ~> (j \in DOMAIN job /\ job[j].status \in Terminal)

\* C22: a job left in processing with no request executing it eventually
\* is queued, completed or failed.
C22_AbandonedJobRecovers ==
    FailuresStop =>
      \A j \in JobIds :
          (j \in DOMAIN job /\ job[j].status = "processing" /\ NoRunner(j))
            ~> (j \in DOMAIN job /\ job[j].status \in {"queued"} \cup Terminal)

\* C23: the worker loop never terminates; a failing fetch or trigger leaves
\* the job table as it is and is followed by the loop's sleep and then by
\* another fetch; and when the failures stop, a job that was queued at a failure is fetched by a later
\* cycle unless it has left the queued status.
C23_PollerSurvives ==
    /\ [](poll.pc \in {"sleep", "run", "error"})
    /\ [][WorkerFails => job' = job]_vars
    /\ (poll.pc = "error") ~> (poll.pc = "sleep")
    /\ (poll.pc = "sleep") ~> (poll.pc \in {"run", "error"})
    /\ FailuresStop =>
          \A j \in JobIds :
              (poll.pc = "error" /\ j \in DOMAIN job /\ job[j].status = "queued")
                ~> (j \in DOMAIN job
                      /\ ( (poll.pc = "run" /\ j \in Range(poll.ids))
                           \/ job[j].status # "queued" ))

\* A trigger has failed and the job it was for is still queued.
C23_Witness ==
    /\ poll.pc = "error"
    /\ poll.ids # <<>>
    /\ job[Head(poll.ids)].status = "queued"

\* --------------------------------------------- the queue as run_job finds it
\* The job table is a durable queue that run_job reads row by row: a row
\* may name a job type run_job does not know, a document that is not there
\* or one of another owner.  One queued row of owner u1 is drawn, with the
\* attempts it has used, and at most one document.
JobTypes == {"document_process", "report"}

QueuedJob(type, d, attempts, max_attempts) ==
    [NewJob("u1", d, 0) EXCEPT !.job_type = type, !.attempts = attempts,
                               !.max_attempts = max_attempts]

StoredDocument(u, text, stored) ==
    [user_id |-> u, status |-> "queued", storage_key |-> stored,
     sha256 |-> text, text |-> text]

InitJobs ==
    /\ now = 0
    /\ chunk = <<>>
    /\ lock = 0
    /\ tx = NoTx
    /\ rq = [r \in Reqs |-> IdleReq]
    /\ poll = [pc |-> "sleep", ids |-> <<>>, wait |-> 0]
    /\ reg = [g \in Regs |-> IdleReg]
    /\ ask = [a \in Asks |-> IdleAsk]
    /\ bucket = [u \in Owners |-> <<>>]
    /\ admitted = [u \in Owners |-> <<>>]
    /\ call = NoCall
    /\ \/ document = <<>>
       \/ \E u \in Owners, text \in Texts, stored \in BOOLEAN :
            document = <<StoredDocument(u, text, stored)>>
    /\ \E type \in JobTypes, max_attempts \in 1..job_max_attempts :
         \E attempts \in 0..(max_attempts - 1) :
            job = <<QueuedJob(type, 1, attempts, max_attempts)>>

NextJobs ==
    \/ Wait
    \/ PollFetch
    \/ \E r \in Reqs : PollRunJob(r)
    \/ PollResponse
    \/ PollSleep
    \/ \E r \in Reqs : Claim(r)
    \/ \E r \in Reqs : RunJobUnsupported(r)
    \/ \E r \in Reqs : ProcessRead(r)
    \/ \E r \in Reqs : ProcessWrite(r)
    \/ \E r \in Reqs : ProcessIndex(r)
    \/ \E r \in Reqs : RunJobExcept(r)
    \/ \E r \in Reqs : RunJobComplete(r)

SpecJobs == InitJobs /\ [][NextJobs]_vars

\* C24: a failing execution of a job whose type run_job does not know moves
\* the job to failed, never back to queued.
C24_UnknownTypeFails ==
    [][\A r \in Reqs :
         (FailureStep(r) /\ rq[r].exc = "Unsupported job type")
           => job'[rq[r].job_id].status = "failed"]_vars

\* C25: when an attempt of a job fails because extraction fails, the
\* document's status becomes failed, and the job is queued again with its
\* backoff if attempts < max_attempts and failed otherwise.
C25_ExtractionFailureMarksDocument ==
    [][\A r \in Reqs :
         (FailureStep(r) /\ rq[r].exc = "TXT file has no readable text") =>
           LET j == rq[r].job_id IN
           /\ document'[rq[r].document_id].status = "failed"
           /\ IF job[j].attempts < job[j].max_attempts
              THEN /\ job'[j].status = "queued"
                   /\ job'[j].next_run_at = now + retry_seconds(job[j].attempts)
              ELSE job'[j].status = "failed"]_vars

\* C26: a failing execution of a job whose document does not exist for the
\* job's owner does not return the job to queued.
C26_MissingDocumentNotRetried ==
    [][\A r \in Reqs :
         (FailureStep(r) /\ rq[r].exc = "Document not found for user")
           => job'[rq[r].job_id].status # "queued"]_vars

\* ------------------------------------------------ the chunker on its own
\* split_into_chunks called on every text of at most MaxTextLen characters
\* over letters, sentence terminators and blanks, with chunk sizes and
\* overlaps small enough for those texts to be cut.
TextAlphabet == {"a", ".", " "}

SmallTexts == UNION {[1..n -> TextAlphabet] : n \in 0..MaxTextLen}

ChunkSizes == {2, 3}

Overlaps == {0, 1, 2}

InitCall ==
    /\ now = 0
    /\ document = <<>>
    /\ chunk = <<>>
    /\ job = <<>>
    /\ lock = 0
    /\ tx = NoTx
    /\ rq = [r \in Reqs |-> IdleReq]
    /\ poll = [pc |-> "sleep", ids |-> <<>>, wait |-> 0]
    /\ reg = [g \in Regs |-> IdleReg]
    /\ ask = [a \in Asks |-> IdleAsk]
    /\ bucket = [u \in Owners |-> <<>>]
    /\ admitted = [u \in Owners |-> <<>>]

InitChunker ==
    /\ InitCall
    /\ \E text \in SmallTexts, chunk_size \in ChunkSizes, overlap \in Overlaps :
         call = [fn |-> "split_into_chunks", text |-> text,
                 chunk_size |-> chunk_size, overlap |-> overlap,
                 returned |-> FALSE, chunks |-> <<>>]

SplitIntoChunks ==
    /\ call.fn = "split_into_chunks"
    /\ ~call.returned
    /\ call' = [call EXCEPT !.returned = TRUE,
                            !.chunks = split_into_chunks(call.text, call.chunk_size,
                                                         call.overlap)]
    /\ UNCHANGED <<now, document, chunk, job, lock, tx, rq, poll, reg, ask, bucket, admitted>>

NextChunker == SplitIntoChunks

SpecChunker == InitChunker /\ [][NextChunker]_vars

\* The sentences the chunker reads from a text.
SentencesOf(text) ==
    IF normalize_text(text) = <<>> THEN <<>>
    ELSE split_sentences(normalize_text(text), <<>>)

ChunkerReturned == call.fn = "split_into_chunks" /\ call.returned

\* C27: for a text whose sentences are each at most chunk_size characters
\* long, every chunk has at most chunk_size + overlap characters.
C27_ChunkLengthBound ==
    ChunkerReturned =>
      ( (\A i \in DOMAIN SentencesOf(call.text) :
            Len(SentencesOf(call.text)[i]) <= call.chunk_size)
        => \A i \in DOMAIN call.chunks :
              Len(call.chunks[i]) <= call.chunk_size + call.overlap )

\* Text s ends with text e.
EndsWith(s, e) ==
    Len(e) <= Len(s) /\ SubSeq(s, Len(s) - Len(e) + 1, Len(s)) = e

\* C28: for an empty or blank text the chunker returns no chunk; for any
\* other text it returns at least one chunk, none of them empty or blank,
\* and the last chunk ends with the last sentence of the text.
C28_FinalBufferEmitted ==
    ChunkerReturned =>
      IF \A i \in DOMAIN call.text : call.text[i] = " "
      THEN call.chunks = <<>>
      ELSE /\ call.chunks # <<>>
           /\ \A i \in DOMAIN call.chunks :
                 \E k \in DOMAIN call.chunks[i] : call.chunks[i][k] # " "
           /\ LET sentences == SentencesOf(call.text) IN
              EndsWith(call.chunks[Len(call.chunks)], sentences[Len(sentences)])

\* A text of three sentences cut into more than one chunk.
C28_Witness ==
    /\ ChunkerReturned
    /\ Len(SentencesOf(call.text)) = 3
    /\ Len(call.chunks) >= 2

\* ------------------------------------------------ extraction on its own
\* extract_text called on a stored file of any format under any declared
\* content type.  A file is what the operating system and the parsers see
\* of it: whether the path exists, its suffix, the format its bytes are in,
\* and its content: the text of a text file, the page texts of a PDF, the
\* paragraph texts of a Word document.
PlainType == "text/plain"
PdfType == "application/pdf"
DocxType == "application/vnd.openxmlformats-officedocument.wordprocessingml.document"

ContentTypes == {PlainType, "TEXT/PLAIN", PdfType, DocxType, "application/octet-stream", ""}

Suffixes == {".txt", ".PDF", ".docx", ".bin"}

\* str.lower() on the content types and suffixes of the model.
lower_name(name) ==
    CASE name = "TEXT/PLAIN" -> PlainType
      [] name = ".PDF" -> ".pdf"
      [] OTHER -> name

TxtBodies == { <<>>, <<" ">>, <<" ", "a", ".", " ", " ", "b", ".">> }

PartBodies ==
    { <<>>,
      << <<" ">> >>,
      << <<"a", ".">> >>,
      << <<" ">>, <<"a", ".", " ">>, <<"b", ".">> >> }

Files ==
    {[exists |-> e, suffix |-> x, format |-> "txt", text |-> t, parts |-> <<>>] :
        e \in BOOLEAN, x \in Suffixes, t \in TxtBodies}
    \cup
    {[exists |-> e, suffix |-> x, format |-> f, text |-> <<>>, parts |-> b] :
        e \in BOOLEAN, x \in Suffixes, f \in {"pdf", "docx"}, b \in PartBodies}

LF == "LF"

\* path.read_text(encoding = "utf-8", errors = "ignore"): the text of a text
\* file; of a PDF or a Word document the readable start of its bytes.
read_text(file) ==
    CASE file.format = "txt" -> file.text
      [] file.format = "pdf" -> <<"%", "P", "D", "F">>
      [] OTHER -> <<"P", "K">>

\* normalize_text(sep.join(parts)) for sep "\n" or "\n\n" and parts that are
\* normalized and not empty: the rewrite of "\s*\n\s*" leaves one newline
\* between two parts.
RECURSIVE join_lines(_)
join_lines(parts) ==
    IF parts = <<>> THEN <<>>
    ELSE IF Len(parts) = 1 THEN parts[1]
    ELSE parts[1] \o <<LF>> \o join_lines(Tail(parts))

\* The outcome of extract_text: the parser chosen, and the text returned or
\* the error raised.
Fails(parser, error) ==
    [raised |-> TRUE, error |-> error, parser |-> parser, text |-> <<>>]

\* The text is returned whether or not anything is in it.
ExtractedAnyway(parser, text, error) ==
    [raised |-> FALSE, error |-> "none", parser |-> parser, text |-> text]

\* "if text: return text" followed by the raise of the branch.
Extracted(parser, text, error) ==
    IF text # <<>>
    THEN [raised |-> FALSE, error |-> "none", parser |-> parser, text |-> text]
    ELSE Fails(parser, error)

\* PdfReader(path) and Document(path) raise on a file that is not in their
\* format; the text branch reads any bytes.
Parses(parser, file) == parser = "txt" \/ file.format = parser

\* extract_text, lines 25, 31 and 39-43: the branch taken.
Branch(normalized_type, suffix) ==
    IF normalized_type = PlainType \/ suffix = ".txt" THEN "txt"
    ELSE IF normalized_type = PdfType \/ suffix = ".pdf" THEN "pdf"
    ELSE IF normalized_type = DocxType \/ suffix = ".docx" THEN "docx"
    ELSE "none"

extract_text_file(file, content_type) ==
    LET normalized_type == lower_name(content_type)
        suffix == lower_name(file.suffix)
        parser == Branch(normalized_type, suffix)
        normalized == [i \in DOMAIN file.parts |-> normalize_text(file.parts[i])]
    IN IF ~file.exists THEN Fails("none", "FileNotFoundError")
       ELSE IF parser = "txt"
       THEN Extracted("txt", normalize_text(read_text(file)),
                      "TXT file has no readable text")
       ELSE IF parser = "pdf"
       THEN IF ~Parses("pdf", file) THEN Fails("pdf", "PdfReadError")
            ELSE Extracted("pdf",
                           strip(join_lines(SelectSeq(normalized, LAMBDA part : part # <<>>))),
                           "PDF file has no extractable text")
       ELSE IF parser = "docx"
       THEN IF ~Parses("docx", file) THEN Fails("docx", "PackageNotFoundError")
            ELSE Extracted("docx",
                           strip(join_lines(
                               [i \in DOMAIN SelectSeq(file.parts, LAMBDA p : strip(p) # <<>>) |->
                                   normalize_text(SelectSeq(file.parts,
                                                            LAMBDA p : strip(p) # <<>>)[i])])),
                           "DOCX file has no extractable text")
       ELSE Fails("none", "Unsupported content type for parser")

InitExtract ==
    /\ InitCall
    /\ \E file \in Files, content_type \in ContentTypes :
         call = [fn |-> "extract_text", file |-> file, content_type |-> content_type,
                 returned |-> FALSE, out |-> Fails("none", "none")]

ExtractText ==
    /\ call.fn = "extract_text"
    /\ ~call.returned
    /\ call' = [call EXCEPT !.returned = TRUE,
                            !.out = extract_text_file(call.file, call.content_type)]
    /\ UNCHANGED <<now, document, chunk, job, lock, tx, rq, poll, reg, ask, bucket, admitted>>

NextExtract == ExtractText

SpecExtract == InitExtract /\ [][NextExtract]_vars

\* ----------------------------------------------------- extraction claims
ExtractReturned == call.fn = "extract_text" /\ call.returned

SupportedTypes == {PlainType, PdfType, DocxType}

SupportedSuffixes == {".txt", ".pdf", ".docx"}

\* Neither the declared type nor the extension names a supported format.
UnsupportedFormat ==
    /\ lower_name(call.content_type) \notin SupportedTypes
    /\ lower_name(call.file.suffix) \notin SupportedSuffixes

\* What the chosen parser finds in the file is blank: the bytes read as
\* text, or every page or paragraph.
Blank(text) == \A i \in DOMAIN text : text[i] = " "

YieldsOnlyWhitespace ==
    /\ call.out.parser # "none"
    /\ Parses(call.out.parser, call.file)
    /\ IF call.out.parser = "txt" THEN Blank(read_text(call.file))
       ELSE \A i \in DOMAIN call.file.parts : Blank(call.file.parts[i])

\* The text returned is not empty, has no blank at either end and no two
\* blanks in a row.
NormalizedText(text) ==
    /\ text # <<>>
    /\ text[1] # " " /\ text[Len(text)] # " "
    /\ \A i \in 1..(Len(text) - 1) : ~(text[i] = " " /\ text[i + 1] = " ")

\* C29 as stated: extract_text fails exactly when the source is missing, the
\* format is unsupported or extraction yields only whitespace, and
\* otherwise returns non-empty normalized text; a failure returns no text.
C29_FailsExactlyWhen ==
    ExtractReturned =>
      /\ call.out.raised <=>
            (~call.file.exists \/ UnsupportedFormat \/ YieldsOnlyWhitespace)
      /\ ~call.out.raised => NormalizedText(call.out.text)
      /\ call.out.raised => call.out.text = <<>>

\* C29, amended: extract_text fails exactly when the source is missing, the
\* format is unsupported, the file is not in the format of the parser
\* chosen, or extraction yields only whitespace, and otherwise returns
\* non-empty normalized text; a failure returns no text.
C29_FailsExactlyWhenOrUnreadable ==
    ExtractReturned =>
      /\ call.out.raised <=>
            \/ ~call.file.exists
            \/ UnsupportedFormat
            \/ call.out.parser # "none" /\ ~Parses(call.out.parser, call.file)
            \/ YieldsOnlyWhitespace
      /\ ~call.out.raised => NormalizedText(call.out.text)
      /\ call.out.raised => call.out.text = <<>>

\* A PDF whose first page is blank and whose other pages hold text is
\* extracted; a PDF whose only page is blank has been refused.
C29_Witness ==
    /\ ExtractReturned
    /\ call.file.exists
    /\ call.out.parser = "pdf"
    /\ call.file.format = "pdf"
    /\ \/ Len(call.file.parts) = 3 /\ ~call.out.raised
       \/ call.file.parts = << <<" ">> >> /\ call.out.raised

\* C30: when the declared type is a supported one the parser of that type
\* is used, and the extension decides only when the declared type is not a
\* supported one.
ParserOfType(normalized_type) ==
    CASE normalized_type = PlainType -> "txt"
      [] normalized_type = PdfType -> "pdf"
      [] normalized_type = DocxType -> "docx"
      [] OTHER -> "none"

ParserOfSuffix(suffix) ==
    CASE suffix = ".txt" -> "txt"
      [] suffix = ".pdf" -> "pdf"
      [] suffix = ".docx" -> "docx"
      [] OTHER -> "none"

C30_DeclaredTypeDecides ==
    (ExtractReturned /\ call.file.exists) =>
      LET normalized_type == lower_name(call.content_type) IN
      call.out.parser = IF normalized_type \in SupportedTypes
                        THEN ParserOfType(normalized_type)
                        ELSE ParserOfSuffix(lower_name(call.file.suffix))

\* ------------------------------------------------ chunker claims, again
\* The trailing overlap characters of an emitted chunk, as C34 reads them:
\* kept whenever the chunk has at least that many.
TrailingOverlap(c, overlap) ==
    IF Len(c) >= overlap THEN SubSeq(c, Len(c) - overlap + 1, Len(c)) ELSE <<>>

\* Chunks i, i + 1, ... are built from the sentences after the k-th: each
\* is the seed taken from the chunk before it, a blank and one or more of
\* the next sentences, trimmed, and all but the last were closed because
\* the sentence that follows did not fit.
RECURSIVE SeededChunks(_, _, _, _, _, _)
SeededChunks(chunks, i, sentences, k, chunk_size, overlap) ==
    IF i > Len(chunks) THEN k = Len(sentences)
    ELSE \E m \in (k + 1)..Len(sentences) :
           /\ chunks[i] =
                 strip((IF i = 1 THEN <<>> ELSE TrailingOverlap(chunks[i - 1], overlap))
                       \o <<" ">> \o join(SubSeq(sentences, k + 1, m)))
           /\ i < Len(chunks) =>
                 /\ m < Len(sentences)
                 /\ Len(chunks[i]) + Len(sentences[m + 1]) + 1 > chunk_size
           /\ SeededChunks(chunks, i + 1, sentences, m, chunk_size, overlap)

\* C34: every chunk after the first starts with the trailing overlap
\* characters of the chunk before it, trimmed, when that chunk has at least
\* overlap characters, and with the next sentence alone when it is
\* shorter; a chunk is closed only when the next sentence and one separator
\* would make it longer than chunk_size.
C34_OverlapSeeding ==
    ChunkerReturned =>
      SeededChunks(call.chunks, 1, SentencesOf(call.text), 0,
                   call.chunk_size, call.overlap)

\* Sentences k, k + 1, ... are found whole in chunks i, i + 1, ..., never
\* in a chunk before the one their predecessor is in.
RECURSIVE InOrder(_, _, _, _)
InOrder(sentences, k, chunks, i) ==
    IF k > Len(sentences) THEN TRUE
    ELSE \E n \in i..Len(chunks) :
           /\ contains(sentences[k], chunks[n])
           /\ InOrder(sentences, k + 1, chunks, n)

\* C40: every sentence of a text appears whole in at least one chunk, and
\* the sentences appear in the chunks in the order of the text.
C40_NoTextLost ==
    ChunkerReturned =>
      InOrder(SentencesOf(call.text), 1, call.chunks, 1)

\* A text of two different sentences that are cut into two chunks.
C40_Witness ==
    /\ ChunkerReturned
    /\ Len(SentencesOf(call.text)) = 2
    /\ SentencesOf(call.text)[1] # SentencesOf(call.text)[2]
    /\ Len(call.chunks) = 2

\* ------------------------------------------- rate limiter, two identities
\* Chat requests of two identities over an empty library.  Each identity
\* starts at or just below its limit, after a burst at second 0, and the
\* clock moves by half a window or a second more, so that checks are
\* rejected, admitted and evicted for one identity while the other is
\* locked out.
InitBuckets ==
    /\ now = 0
    /\ document = <<>>
    /\ chunk = <<>>
    /\ job = <<>>
    /\ lock = 0
    /\ tx = NoTx
    /\ rq = [r \in Reqs |-> IdleReq]
    /\ poll = [pc |-> "sleep", ids |-> <<>>, wait |-> 0]
    /\ reg = [g \in Regs |-> IdleReg]
    /\ ask = [a \in Asks |-> IdleAsk]
    /\ call = NoCall
    /\ \E n, m \in (rate_limit_per_minute - MaxRateAsks)..rate_limit_per_minute :
         bucket = [u \in Owners |-> Filled(0, IF u = "u1" THEN n ELSE m)]
    /\ admitted = bucket

\* Arrivals stop once an identity has been admitted MaxRateAsks times more
\* than its limit.
RateAsksLeft(u) == Len(admitted[u]) < rate_limit_per_minute + MaxRateAsks

NextBuckets ==
    \/ \E d \in {window_seconds \div 2, window_seconds \div 2 + 1} : Elapse(d)
    \/ \E a \in Asks, u \in Owners : RateAsksLeft(u) /\ AskArrive(a, u, Question, 0)
    \/ \E a \in Asks : AskBegin(a)
    \/ \E a \in Asks : RateNow(a)
    \/ \E a \in Asks : RateEvictTest(a)
    \/ \E a \in Asks : RatePopLeft(a)
    \/ \E a \in Asks : RateCount(a)
    \/ \E a \in Asks : RateAppend(a)
    \/ \E a \in Asks : AskRetrieve(a)
    \/ \E a \in Asks : AskRespond(a)

SpecBuckets == InitBuckets /\ [][NextBuckets]_vars

\* The identity whose request a takes a step.
Caller(a) == IF ask[a].pc = "idle" THEN ask'[a].user_id ELSE ask[a].user_id

\* C35: a rejected check appends no timestamp, so that the window of its
\* identity holds admitted timestamps only and a check is admitted as soon
\* as fewer than the limit of the admitted timestamps are in the window,
\* however many checks were rejected; and no step of a request changes the
\* window of another identity, whose checks are decided by its own
\* admitted timestamps alone.
C35_RejectionConsumesNothing ==
    [][\A a \in Asks :
          /\ (ask[a].pc = "count" /\ ask'[a].pc = "done") =>
                /\ ask'[a].ret = "http 429"
                /\ bucket' = bucket
                /\ admitted' = admitted
                /\ \A stamp \in Range(bucket'[ask[a].user_id]) \cup {ask[a].t} :
                      Count(bucket'[ask[a].user_id], stamp)
                          <= Count(admitted[ask[a].user_id], stamp)
          /\ (ask[a].pc = "count" /\ ask'[a].pc # "count") =>
                ((ask'[a].pc = "append")
                    <=> Cardinality(InWindow(ask[a].user_id, ask[a].t))
                            < rate_limit_per_minute)
          /\ ask'[a] # ask[a] =>
                \A v \in Owners \ {Caller(a)} :
                    bucket'[v] = bucket[v] /\ admitted'[v] = admitted[v]]_vars

\* Half a window after the burst a check of u1 has been rejected, leaving
\* its timestamp in no window, while a check of u2 made at the same second
\* has been admitted.
C35_Witness ==
    \E a, b \in Asks :
        /\ ask[a].user_id = "u1" /\ ask[a].pc = "done" /\ ask[a].ret = "http 429"
        /\ ask[b].user_id = "u2" /\ ask[b].pc = "retrieve"
        /\ now = window_seconds \div 2
        /\ Count(bucket["u2"], now) = 1
        /\ Count(bucket["u1"], now) = 0
        /\ Len(bucket["u1"]) = rate_limit_per_minute

\* ------------------------------------------------- embedding on its own
\* embed_text, upsert_chunk_vectors and query_vectors called on their own:
\* embed_text on every small text with the dimension left to the
\* configuration or given, the other two with the vector store up or down.
Dims == {NULL, 32, 64}

\* size = dim or settings.embedding_dim
digest_size(dim) == IF dim = NULL THEN embedding_dim ELSE dim

\* embed_text: blake2b accepts a digest_size of 1 to 64 bytes and raises
\* ValueError for any other; the vector has one component per digest byte.
embed_text(text, dim) ==
    LET size == digest_size(dim) IN
    IF size < 1 \/ size > Blake2bMaxDigest
    THEN [raised |-> TRUE, error |-> "ValueError", components |-> 0]
    ELSE [raised |-> FALSE, error |-> "none", components |-> size]

\* The rows handed to upsert_chunk_vectors: none, or one inserted chunk.
UpsertRows == { <<>>, <<[chunk_id |-> 1, content |-> <<"a", ".">>]>> }

InitEmbed ==
    /\ InitCall
    /\ \/ \E text \in SmallTexts, dim \in Dims :
            call = [fn |-> "embed_text", text |-> text, dim |-> dim,
                    returned |-> FALSE]
       \/ \E rows \in UpsertRows, vs \in VectorStates :
            call = [fn |-> "upsert_chunk_vectors", rows |-> rows, vs |-> vs,
                    returned |-> FALSE]
       \/ \E text \in SmallTexts, vs \in VectorStates :
            call = [fn |-> "query_vectors", question |-> text, vs |-> vs,
                    returned |-> FALSE]

\* The vector store answers: _client() and ensure_collection() succeed.
Available(vs) == vs \in {"present", "missing"}

EmbedText ==
    /\ call.fn = "embed_text"
    /\ ~call.returned
    /\ call' = [fn |-> "embed_text", text |-> call.text, dim |-> call.dim,
                returned |-> TRUE, out |-> embed_text(call.text, call.dim)]
    /\ UNCHANGED <<now, document, chunk, job, lock, tx, rq, poll, reg, ask, bucket, admitted>>

UpsertChunkVectors ==
    /\ call.fn = "upsert_chunk_vectors"
    /\ ~call.returned
    /\ call' = [fn |-> "upsert_chunk_vectors", rows |-> call.rows, vs |-> call.vs,
                returned |-> TRUE,
                out |-> upsert_chunk_vectors(call.rows, Available(call.vs))]
    /\ UNCHANGED <<now, document, chunk, job, lock, tx, rq, poll, reg, ask, bucket, admitted>>

QueryVectors ==
    /\ call.fn = "query_vectors"
    /\ ~call.returned
    /\ call' = [fn |-> "query_vectors", question |-> call.question, vs |-> call.vs,
                returned |-> TRUE,
                out |-> query_vectors("u1", call.question, call.vs)]
    /\ UNCHANGED <<now, document, chunk, job, lock, tx, rq, poll, reg, ask, bucket, admitted>>

NextEmbed == EmbedText \/ UpsertChunkVectors \/ QueryVectors

SpecEmbed == InitEmbed /\ [][NextEmbed]_vars

\* C36: embed_text with the configured dimension returns, for every text, a
\* vector of embedding_dim components and does not raise; and neither
\* upsert_chunk_vectors nor query_vectors raises when the vector store is
\* available.
C36_EmbedNeverRaises ==
    /\ (call.fn = "embed_text" /\ call.returned /\ call.dim = NULL) =>
          ~call.out.raised /\ call.out.components = embedding_dim
    /\ (call.fn = "upsert_chunk_vectors" /\ call.returned /\ Available(call.vs)) =>
          call.out # "raise"
    /\ (call.fn = "query_vectors" /\ call.returned /\ Available(call.vs)) =>
          ~call.out.raised

\* ------------------------------------------------ the queue being fetched
\* The job table as the worker's fetch may find it after some time of
\* operation: more rows than one fetch returns, some due, some waiting for
\* their backoff, some taken or finished.  Rows with an even id were
\* created at second 10, the others at second 0 and retried since; a
\* trigger that cannot reach the API sends the worker back to fetch.
QueueJobIds == 1..MaxQueueJobs

\* The status of row j when it is not queued.
Taken(j) == <<"processing", "completed", "failed">>[(j % 3) + 1]

QueueRow(j, status, next_run_at) ==
    [NewJob("u1", 1, 0) EXCEPT
        !.status = status,
        !.next_run_at = next_run_at,
        !.created_at = IF j % 2 = 0 /\ next_run_at >= TickSeconds THEN TickSeconds ELSE 0,
        !.attempts = IF status = "queued" THEN 0 ELSE 1]

QueueRows(j) ==
    {QueueRow(j, "queued", t) : t \in {0, TickSeconds, 2 * TickSeconds}}
        \cup {QueueRow(j, Taken(j), 0)}

InitQueue ==
    /\ now = 0
    /\ document = <<>>
    /\ chunk = <<>>
    /\ lock = 0
    /\ tx = NoTx
    /\ rq = [r \in Reqs |-> IdleReq]
    /\ poll = [pc |-> "sleep", ids |-> <<>>, wait |-> 0]
    /\ reg = [g \in Regs |-> IdleReg]
    /\ ask = [a \in Asks |-> IdleAsk]
    /\ bucket = [u \in Owners |-> <<>>]
    /\ admitted = [u \in Owners |-> <<>>]
    /\ call = NoCall
    /\ job \in [QueueJobIds -> UNION {QueueRows(j) : j \in QueueJobIds}]
    /\ \A j \in QueueJobIds : job[j] \in QueueRows(j)

NextQueue ==
    \/ Wait
    \/ PollFetch
    \/ PollTriggerRaise
    \/ PollLoopExcept
    \/ PollSleep

SpecQueue == InitQueue /\ [][NextQueue]_vars

\* Row a sorts before row b: earlier next_run_at, or the same and created
\* earlier.
SortsBefore(a, b) ==
    \/ job[a].next_run_at < job[b].next_run_at
    \/ job[a].next_run_at = job[b].next_run_at /\ job[a].created_at < job[b].created_at

Eligible == {j \in DOMAIN job : job[j].status = "queued" /\ job[j].next_run_at <= now}

\* C32: a fetch returns min(5, number of eligible jobs) different jobs, all
\* of them queued with next_run_at <= now, in ascending (next_run_at,
\* created_at) order, and no eligible job that sorts before a returned one
\* is left out.
C32_FetchFirstDue ==
    [][(poll.pc = "sleep" /\ poll'.pc = "run") =>
          LET ids == poll'.ids IN
          /\ Len(ids) = IF Cardinality(Eligible) < fetch_limit
                        THEN Cardinality(Eligible) ELSE fetch_limit
          /\ \A i, k \in DOMAIN ids : i # k => ids[i] # ids[k]
          /\ \A i \in DOMAIN ids : ids[i] \in Eligible
          /\ \A i, k \in DOMAIN ids : i < k => ~SortsBefore(ids[k], ids[i])
          /\ \A e \in Eligible, i \in DOMAIN ids :
                SortsBefore(e, ids[i]) => \E k \in DOMAIN ids : ids[k] = e]_vars

\* A fetch returned five of six eligible jobs, not in the order of their
\* ids, and left out the job created last.
C32_Witness ==
    /\ poll.pc = "run"
    /\ Len(poll.ids) = fetch_limit
    /\ Cardinality(Eligible) = fetch_limit + 1
    /\ \E i, k \in DOMAIN poll.ids : i < k /\ poll.ids[i] > poll.ids[k]
    /\ \E e \in Eligible :
          /\ \A i \in DOMAIN poll.ids : poll.ids[i] # e /\ SortsBefore(poll.ids[i], e)

\* ------------------------------------------------------ enqueueing again
\* The worker and the pipeline with up to MaxEnqueued jobs for the one
\* document, so that a job is enqueued while another is queued, being
\* processed, completed or failed.
NextEnqueue ==
    \/ Tick
    \/ \E u \in Users, text \in Texts : UploadDocument(u, text)
    \/ \E u \in Users, d \in DocIds : EnqueueJob(u, d, 1..MaxEnqueued)
    \/ \E r \in Reqs : Claim(r)
    \/ \E r \in Reqs : ProcessRead(r)
    \/ \E r \in Reqs : ProcessWrite(r)
    \/ \E r \in Reqs : ProcessIndex(r)
    \/ \E r \in Reqs : RunJobExcept(r)
    \/ \E r \in Reqs : RunJobComplete(r)
    \/ PollFetch
    \/ \E r \in Reqs : PollRunJob(r)
    \/ PollResponse
    \/ PollSleep

SpecEnqueue == Init /\ [][NextEnqueue]_vars

\* C33: a step that enqueues adds exactly one job, queued, with attempts 0,
\* max_attempts as configured, next_run_at and created_at equal to the time
\* of the step, no started_at, finished_at or error, naming a document of
\* the caller; every other job, every document and every chunk stay as
\* they were.
C33_EnqueueCreatesOneJob ==
    [][DOMAIN job' # DOMAIN job =>
          /\ DOMAIN job \subseteq DOMAIN job'
          /\ Cardinality(DOMAIN job' \ DOMAIN job) = 1
          /\ \A j \in DOMAIN job' \ DOMAIN job :
                /\ job'[j].status = "queued"
                /\ job'[j].attempts = 0
                /\ job'[j].max_attempts = job_max_attempts
                /\ job'[j].next_run_at = now
                /\ job'[j].created_at = now
                /\ job'[j].started_at = NULL
                /\ job'[j].finished_at = NULL
                /\ job'[j].error = "none"
                /\ job'[j].job_type = "document_process"
                /\ job'[j].document_id \in DOMAIN document
                /\ document[job'[j].document_id].user_id = job'[j].user_id
                /\ job'[j].next_run_at <= now'
          /\ \A k \in DOMAIN job : job'[k] = job[k]
          /\ document' = document
          /\ chunk' = chunk]_vars

\* A second job has just been enqueued, at a later time than the first,
\* which has been run and is no longer in its initial state.
C33_Witness ==
    /\ DOMAIN job = 1..2
    /\ job[1].attempts > 0
    /\ job[2].attempts = 0 /\ job[2].status = "queued"
    /\ job[2].created_at = now /\ now > job[1].created_at

\* ------------------------------------------- documents without a file
\* Job j is to process a document its owner registered by metadata only.
NoLocator(j) ==
    /\ j \in DOMAIN job
    /\ job[j].job_type = "document_process"
    /\ job[j].document_id \in DOMAIN document
    /\ document[job[j].document_id].user_id = job[j].user_id
    /\ ~document[job[j].document_id].storage_key

\* C37: a document without a storage locator keeps its chunks and never
\* becomes processed; every execution of a job for it fails with the
\* missing locator, before extraction; and the job is never completed and
\* is failed only with attempts equal to max_attempts.
C37_NoLocatorFailsAtMax ==
    [][/\ \A d \in DOMAIN document :
             ~document[d].storage_key =>
                 /\ document'[d].status # "processed"
                 /\ ChunksOf(chunk', d) = ChunksOf(chunk, d)
       /\ \A r \in Reqs :
             (ReturnStep(r) /\ NoLocator(rq[r].job_id)) =>
                 FailureStep(r) /\ rq[r].exc = "Document has no storage key"
       /\ \A j \in DOMAIN job :
             NoLocator(j) =>
                 /\ job'[j].status # "completed"
                 /\ job'[j].status = "failed" => job'[j].attempts = job'[j].max_attempts]_vars

\* ------------------------------------------------ processing by a stranger
\* The user on whose behalf request r takes a step.
Requester(r) == IF rq[r].pc = "idle" THEN rq'[r].user_id ELSE rq[r].user_id

\* C38: no step of a processing request changes the status or the chunks of
\* a document that the requesting user does not own.
C38_StrangerChangesNothing ==
    [][\A r \in Reqs :
          rq'[r] # rq[r] =>
              \A d \in DOMAIN document :
                  document[d].user_id # Requester(r) =>
                      /\ document'[d].status = document[d].status
                      /\ ChunksOf(chunk', d) = ChunksOf(chunk, d)]_vars

\* ------------------------------------------- ranking with stale vectors
\* hybrid_retrieve from line 36 on, over the library after any subset of
\* its documents has been processed, for every answer of a vector store
\* that holds points of chunks written by earlier runs: a score for any of
\* the chunk identities below, whether a chunk of that identity exists now
\* or not.  A search reaches the vector store only where embed_text
\* returns, that is under a configured embedding_dim of at most 64.
StaleKeys == {<<d, i>> : d \in {2, 4, 5}, i \in 0..MaxStaleIndex}

ScoreMaps == UNION {[K -> {1}] : K \in SUBSET StaleKeys}

InitStale ==
    /\ now = MaxScoreDocs
    /\ job = <<>>
    /\ lock = 0
    /\ tx = NoTx
    /\ rq = [r \in Reqs |-> IdleReq]
    /\ poll = [pc |-> "sleep", ids |-> <<>>, wait |-> 0]
    /\ reg = [g \in Regs |-> IdleReg]
    /\ ask = [a \in Asks |-> IdleAsk]
    /\ bucket = [u \in Owners |-> <<>>]
    /\ admitted = [u \in Owners |-> <<>>]
    /\ \E S \in SUBSET ScoreDocIds :
         /\ document = [d \in ScoreDocIds |-> LibraryDocument(d, d \in S)]
         /\ chunk = ProcessedRows(1, S)
    /\ \E scores \in ScoreMaps, question \in {QuestionFooBar, QuestionNone} :
         call = [fn |-> "hybrid_retrieve", user_id |-> "u1", question |-> question,
                 scores |-> scores, returned |-> FALSE, rows |-> <<>>]

HybridRetrieve ==
    /\ call.fn = "hybrid_retrieve"
    /\ ~call.returned
    /\ call' = [call EXCEPT !.returned = TRUE,
                            !.rows = RankedRows(chunk, document, call.user_id,
                                                call.question, 0, call.scores)]
    /\ UNCHANGED <<now, document, chunk, job, lock, tx, rq, poll, reg, ask, bucket, admitted>>

NextStale == HybridRetrieve

SpecStale == InitStale /\ [][NextStale]_vars

\* The chunk identities the vector store scored that no chunk has now.
StaleHits ==
    {key \in DOMAIN call.scores :
        ~\E i \in DOMAIN chunk :
            chunk[i].document_id = key[1] /\ chunk[i].chunk_index = key[2]}

\* C39: every row hybrid_retrieve returns is a chunk of the chunk store,
\* whatever chunk identities the vector store returned scores for.
C39_StaleVectorsNeverSurface ==
    (call.fn = "hybrid_retrieve" /\ call.returned) =>
        \A i \in DOMAIN call.rows :
            \E k \in DOMAIN chunk : chunk[k] = call.rows[i]

\* The vector store scored identities that no chunk has any more and
\* nothing else, for a question none of whose terms is in the library, and
\* the fallback rows were returned.
C39_Witness ==
    /\ call.fn = "hybrid_retrieve" /\ call.returned
    /\ call.question = QuestionNone
    /\ StaleHits # {}
    /\ StaleHits = DOMAIN call.scores
    /\ call.rows # <<>>


\* ------------------------------------------------ requests and identity
\* One request at a time passes Depends(get_current_user); the requests
\* admitted earlier run their route bodies meanwhile.  An Authorization
\* header is the sequence of its parts around the first space: <<>> when
\* the header is absent, one part when it holds no space.
Authorizations ==
    {<<>>, <<"Bearer">>, <<"Bearer", "">>, <<"BEARER", "good">>,
     <<"Bearer", "nosub">>, <<"Bearer", "forged">>, <<"Basic", "good">>}

XUserIds == {""} \cup Owners

XUserRoles == {"", "admin"}

ProtectedRoutes == {"/chat/ask", "/documents"}

Routes == ProtectedRoutes \cup {"/health"}

default_user_role == "user"

\* str.lower on the scheme part.
lower_scheme(s) ==
    IF s \in {"Bearer", "BEARER"} THEN "bearer"
    ELSE IF s = "Basic" THEN "basic" ELSE s

NoUser == [user_id |-> "", role |-> ""]

NoExc == [status_code |-> 0, detail |-> ""]

NoError == [code |-> "", message |-> "", status_code |-> 0, path |-> "", timestamp |-> 0]

NoResponse == [status_code |-> 0, error |-> NoError]

HTTPException(status_code, detail) ==
    [raised |-> TRUE, exc |-> [status_code |-> status_code, detail |-> detail],
     user |-> NoUser]

CurrentUser(user_id, role) ==
    [raised |-> FALSE, exc |-> NoExc, user |-> [user_id |-> user_id, role |-> role]]

\* jwt.decode under the configured key: a token signed for u2, a signed
\* token whose payload names no subject, a token whose signature fails.
\* Without a key _decode_token raises.
decode_token(token, settings) ==
    IF settings.jwt_secret = ""
    THEN [raised |-> TRUE, sub |-> "", role |-> ""]
    ELSE IF token = "good" THEN [raised |-> FALSE, sub |-> "u2", role |-> ""]
    ELSE IF token = "nosub" THEN [raised |-> FALSE, sub |-> "", role |-> "admin"]
    ELSE [raised |-> TRUE, sub |-> "", role |-> ""]

\* A caller without credentials becomes the first owner.
get_current_user_anonymous(authorization, x_user_id, x_user_role, settings) ==
    CurrentUser(IF x_user_id = "" THEN "u1" ELSE x_user_id,
                IF x_user_role = "" THEN default_user_role ELSE x_user_role)

get_current_user(authorization, x_user_id, x_user_role, settings) ==
    IF Len(authorization) = 2 /\ lower_scheme(authorization[1]) = "bearer"
    THEN LET token == authorization[2]
             payload == decode_token(token, settings)
         IN IF token = "" THEN HTTPException(401, "Invalid bearer token")
            ELSE IF payload.raised THEN HTTPException(401, "Invalid token")
            ELSE IF payload.sub = "" THEN HTTPException(401, "Token missing subject")
            ELSE CurrentUser(payload.sub,
                             IF payload.role = "" THEN default_user_role
                             ELSE payload.role)
    ELSE IF settings.allow_dev_auth /\ x_user_id # ""
    THEN CurrentUser(x_user_id,
                     IF x_user_role = "" THEN default_user_role ELSE x_user_role)
    ELSE HTTPException(401, "Authentication required")

\* _error_payload inside JSONResponse(status_code=exc.status_code, ...)
http_exception_handler(path, exc, t) ==
    [status_code |-> exc.status_code,
     error |-> [code |-> "http_error", message |-> exc.detail,
                status_code |-> exc.status_code, path |-> path, timestamp |-> t]]

Ok200 == [status_code |-> 200, error |-> NoError]

Settings == [allow_dev_auth : BOOLEAN, jwt_secret : {"", "secret"}]

InitAuth ==
    /\ now = 0
    /\ document = <<>>
    /\ chunk = <<>>
    /\ job = <<>>
    /\ lock = 0
    /\ tx = NoTx
    /\ rq = [r \in Reqs |-> IdleReq]
    /\ poll = [pc |-> "sleep", ids |-> <<>>, wait |-> 0]
    /\ reg = [g \in Regs |-> IdleReg]
    /\ ask = [a \in Asks |-> IdleAsk]
    /\ bucket = [u \in Owners |-> <<>>]
    /\ admitted = [u \in Owners |-> <<>>]
    /\ \E settings \in Settings :
         call = [fn |-> "request", pc |-> "idle", settings |-> settings,
                 route |-> "none", authorization |-> <<>>, x_user_id |-> "",
                 x_user_role |-> "", user |-> NoUser, exc |-> NoExc,
                 response |-> NoResponse]

\* A request arrives once the one before it has left the dependency.  A
\* route that declares no dependency goes straight to its body.
RequestArrive(route, authorization, x_user_id, x_user_role) ==
    /\ call.pc \in {"idle", "running", "done"}
    /\ call' = [call EXCEPT !.pc = IF route \in ProtectedRoutes THEN "depends" ELSE "body",
                            !.route = route, !.authorization = authorization,
                            !.x_user_id = x_user_id, !.x_user_role = x_user_role,
                            !.user = NoUser, !.exc = NoExc, !.response = NoResponse]
    /\ UNCHANGED <<now, document, chunk, job, lock, tx, rq, poll, reg, ask, bucket, admitted>>

\* user: CurrentUser = Depends(get_current_user), resolved before the body.
ResolveUser ==
    /\ call.pc = "depends"
    /\ LET res == get_current_user(call.authorization, call.x_user_id,
                                   call.x_user_role, call.settings)
       IN call' = [call EXCEPT !.pc = IF res.raised THEN "handler" ELSE "body",
                               !.user = res.user, !.exc = res.exc]
    /\ UNCHANGED <<now, document, chunk, job, lock, tx, rq, poll, reg, ask, bucket, admitted>>

HttpExceptionHandler ==
    /\ call.pc = "handler"
    /\ call' = [call EXCEPT !.pc = "done",
                            !.response = http_exception_handler(call.route, call.exc, now)]
    /\ UNCHANGED <<now, document, chunk, job, lock, tx, rq, poll, reg, ask, bucket, admitted>>

\* Chat requests stop arriving after MaxAuthAsks admissions.
AuthAsksLeft ==
    Len(admitted["u1"]) + Len(admitted["u2"])
        + Cardinality({a \in Asks : ask[a].pc # "idle"}) < MaxAuthAsks

\* The body of ask_chat starts for the resolved user.
RouteAsk(a) ==
    /\ call.pc = "body"
    /\ call.route = "/chat/ask"
    /\ AuthAsksLeft
    /\ FreeAsk(a)
    /\ ask' = [ask EXCEPT ![a] = [IdleAsk EXCEPT !.pc = "schema",
                                                 !.user_id = call.user.user_id,
                                                 !.question = Question]]
    /\ call' = [call EXCEPT !.pc = "running"]
    /\ UNCHANGED <<now, document, chunk, job, lock, tx, rq, poll, reg, bucket, admitted>>

\* list_documents reads the caller's rows once the tables are free.
RouteList ==
    /\ call.pc = "body"
    /\ call.route = "/documents"
    /\ SchemaLockFree
    /\ call' = [call EXCEPT !.pc = "done", !.response = Ok200]
    /\ UNCHANGED <<now, document, chunk, job, lock, tx, rq, poll, reg, ask, bucket, admitted>>

\* health declares no dependency.
RouteHealth ==
    /\ call.pc = "body"
    /\ call.route = "/health"
    /\ call' = [call EXCEPT !.pc = "done", !.response = Ok200]
    /\ UNCHANGED <<now, document, chunk, job, lock, tx, rq, poll, reg, ask, bucket, admitted>>

NextAuth ==
    \/ \E route \in Routes, authorization \in Authorizations,
          x_user_id \in XUserIds, x_user_role \in XUserRoles :
         RequestArrive(route, authorization, x_user_id, x_user_role)
    \/ ResolveUser
    \/ HttpExceptionHandler
    \/ \E a \in Asks : RouteAsk(a)
    \/ RouteList
    \/ RouteHealth
    \/ \E a \in Asks : AskBegin(a)
    \/ \E a \in Asks : RateNow(a)
    \/ \E a \in Asks : RateEvictTest(a)
    \/ \E a \in Asks : RateCount(a)
    \/ \E a \in Asks : RateAppend(a)
    \/ \E a \in Asks : AskRetrieve(a)
    \/ \E a \in Asks : AskRespond(a)

SpecAuth == InitAuth /\ [][NextAuth]_vars

\* The request in the dependency or past it is for a protected route and
\* carries neither an Authorization header nor an X-User-Id header.
NoCredentials(c) ==
    /\ c.pc # "idle"
    /\ c.route \in ProtectedRoutes
    /\ c.authorization = <<>>
    /\ c.x_user_id = ""

\* C31: a request to a protected endpoint that carries no credentials never
\* reaches the route body; it is answered with status 401 and an error
\* object with code "http_error", a message and status_code 401; and no
\* step of it, from its arrival to its response, changes a document, chunk
\* or job row or a rate-limit window.
C31_NoCredentialsRejected ==
    [][NoCredentials(call') =>
          /\ call'.pc \in {"depends", "handler", "done"}
          /\ call'.pc = "done" =>
                /\ call'.response.status_code = 401
                /\ call'.response.error.code = "http_error"
                /\ call'.response.error.message # ""
                /\ call'.response.error.status_code = 401
          /\ call' # call =>
                UNCHANGED <<document, chunk, job, bucket, admitted>>]_vars

\* A chat request without credentials has been answered 401 while an
\* admitted request of u1 has left its timestamp in the window.
C31_Witness ==
    /\ NoCredentials(call)
    /\ call.route = "/chat/ask"
    /\ call.pc = "done"
    /\ call.response.status_code = 401
    /\ call.response.error.code = "http_error"
    /\ bucket["u1"] # <<>>

====
